---- MODULE Spec2Model ----
(***************************************************************************)
(* Order lifecycle and grid reconciliation engine of the BitGet grid bot.  *)
(*                                                                         *)
(* The model follows the JavaScript sources: CacheManager (State Store),   *)
(* OrderManager (Order Lifecycle Manager), GridStrategy (reconciliation    *)
(* loop) and WebSocketManager (transport).  The venue is an environment:   *)
(* it takes commands off the wire, keeps its own book of open orders and   *)
(* reports status changes on the trading connection.                       *)
(*                                                                         *)
(* Every action is one turn of the Node.js event loop (one timer callback  *)
(* or one inbound message), run to completion.                             *)
(*                                                                         *)
(* Abstractions:                                                           *)
(*  - wall-clock time: an order carries the bit `aged` (more than          *)
(*    maxPendingTimeMs elapsed since its creation); timers are actions     *)
(*    whose guards keep the order of their deadlines;                      *)
(*  - a clientOid `buy_<ms>_<rand>` is the pair (side, n), n a fresh       *)
(*    serial number;                                                       *)
(*  - a size is an integer number of 10^-sizePrecision units;              *)
(*  - the statistics counter ordersCancelled and all logging are left out; *)
(*  - a venue status change is handled by the client in the same step the  *)
(*    venue makes it (the delay of a notification is the delay of the      *)
(*    command on the wire); it is lost when the trading connection is not  *)
(*    ready.                                                               *)
(***************************************************************************)
EXTENDS Integers, Sequences, FiniteSets, TLC

VARIABLES
    omVersion,                    \* which of the two OrderManager definitions is loaded
    configMaxOrders,              \* config.maxOrders of the run
    oidLimit,                     \* number of clientOids the run may generate
    waveCall,                     \* the last wave split: its arguments and its result
    buyCurrentOrders,             \* CacheManager: clientOid -> order
    sellCurrentOrders,            \* CacheManager: price -> order
    buyFilledOrders,              \* CacheManager: price -> details
    lastPrice,                    \* CacheManager: last market price
    stats,                        \* OrderManager.stats
    isHandlingInsufficientBalance,\* OrderManager: recovery in-flight flag
    recovery,                     \* OrderManager: the pending cancelPromise
    orderCancelledListeners,      \* the clientOids the onOrderCancelled listeners of wsManager wait for
    running,                      \* GridStrategy: the strategy is started
    isPlacingOrders,              \* GridStrategy: single-flight flag
    waveProcs,                    \* unfinished placeOrdersInWaves calls
    privateConnected,             \* WebSocketManager
    isAuthenticated,              \* WebSocketManager
    messageQueue,                 \* WebSocketManager: rate-limited outbound queue
    nextOid,                      \* serial number of the next clientOid
    wirePlace,                    \* place-order commands written to the socket
    wireCancel,                   \* cancel-order commands written to the socket
    venueOpen,                    \* orders resting at the venue
    procPhase,                    \* main: constructed, running, stopping (SIGINT handled), exited
    isSaving,                     \* CacheManager: a saveToFile is outstanding
    saveIntervalId,               \* CacheManager: the periodic save timer is set
    cacheFile,                    \* file system: content of persistence.cacheFilePath
    tempFile,                     \* file system: content of cacheFilePath + '.tmp'
    fsOp,                         \* file system: the outstanding asynchronous operation
    socketLimit,                  \* channel -> number of sockets the run may create
    wsPhase,                      \* WebSocketManager: constructed, connected (connect() called), disconnected
    publicConnected,              \* WebSocketManager
    sockets,                      \* channel -> the sockets created, in order, each connecting, open, closing or closed
    ws,                           \* channel -> the socket publicWs / privateWs refers to, 0 for null
    reconnectAttempts,            \* channel -> publicReconnectAttempts / privateReconnectAttempts
    reconnectTimers,              \* channel -> the pending timers of reconnectPublic / reconnectPrivate
    pingInterval,                 \* channel -> publicPingInterval / privatePingInterval is set
    strayPingInterval,            \* channel -> an interval no field refers to is still running
    pongTimeouts,                 \* channel -> the sockets pinged whose pongTimeout is pending
    scheduledReconnect,           \* channel -> publicScheduledReconnect / privateScheduledReconnect: null, pending, fired
    strayScheduledReconnect,      \* channel -> a scheduled-reconnect timer no field refers to is pending
    loginSent,                    \* the trading sockets a login was written to and not yet answered
    subscribed,                   \* channel -> the sockets a subscription was written to
    lastOps                       \* history: store writes and socket writes of the last step, in program order

vars == << omVersion, configMaxOrders, oidLimit, waveCall, running, buyCurrentOrders, sellCurrentOrders, buyFilledOrders, lastPrice,
           stats, isHandlingInsufficientBalance, recovery, orderCancelledListeners,
           isPlacingOrders, waveProcs,
           privateConnected, isAuthenticated, messageQueue, nextOid, wirePlace,
           wireCancel, venueOpen, lastOps,
           procPhase, isSaving, saveIntervalId, cacheFile, tempFile, fsOp,
           socketLimit, wsPhase, publicConnected, sockets, ws, reconnectAttempts, reconnectTimers,
           pingInterval, strayPingInterval, pongTimeouts, scheduledReconnect,
           strayScheduledReconnect, loginSent, subscribed >>

\* the process phase, the persistence state of CacheManager and the files
persistVars == << procPhase, isSaving, saveIntervalId, cacheFile, tempFile, fsOp >>

\* the connections of WebSocketManager, apart from privateConnected and isAuthenticated
connVars == << socketLimit, wsPhase, publicConnected, sockets, ws, reconnectAttempts, reconnectTimers,
               pingInterval, strayPingInterval, pongTimeouts, scheduledReconnect,
               strayScheduledReconnect, loginSent, subscribed >>

-----------------------------------------------------------------------------
(* Bounds of the model *)

\* number of clientOids the model generates
MaxOids == 3

\* market prices observed: 160, 210, ... (MaxPriceMoves + 1 samples)
MaxPriceMoves == 1

\* config.maxOrders, scaled down (10 in config.js)
maxOrders == 2

\* config.maxOrders of a run whose ladder takes three waves
MaxOrdersLongBatch == 3

\* config.massOrders.waveSize, scaled down (49 in config.js)
waveSize == 1

\* number of clientOids a run under a fixed market price generates
MaxOidsFixedPrice == 4

\* number of clientOids a run of the insufficient-balance recovery generates
MaxOidsRecovery == 4

\* longest list of prices given to the wave split
MaxWaveInput == 100

\* largest wave size given to the wave split
MaxWaveCap == 50

\* number of clientOids the callers of the State Store on its own draw from
MaxStoreIds == 1

\* number of sockets a run creates on the channel it exercises
MaxSockets == 3

\* number of sockets a run creates on the other channel
MaxSocketsOtherChannel == 1

(* Program constants *)

priceStep == 50

orderAmountUSDT == 50

sizePrecision == 6

BitGetMaxPerWave == 49

\* null / undefined price (this.lastPrice = null): falsy, like 0
NoPrice == 0

\* parseFloat(undefined): the key NaN of a Map equals itself (SameValueZero)
NaN == -1

\* the market-data and the trading connection
Channels == {"public", "private"}

PriceSamples == { 160 + priceStep * k : k \in 0..MaxPriceMoves }

NoOid == [side |-> "none", n |-> 0]

Oid(side, n) == [side |-> side, n |-> n]

Range(s) == { s[i] : i \in DOMAIN s }

RECURSIVE Pow10(_)
Pow10(k) == IF k = 0 THEN 1 ELSE 10 * Pow10(k - 1)

\* !x of JavaScript for a number, NaN or undefined
Falsy(x) == x = NaN \/ x = 0

\* a - b of JavaScript: NaN is absorbing
JsSub(a, b) == IF a = NaN \/ b = NaN THEN NaN ELSE a - b

\* Map.delete(key)
MapDelete(m, k) == [x \in (DOMAIN m) \ {k} |-> m[x]]

\* Map.set(key, value)
MapSet(m, k, v) == [x \in (DOMAIN m) \cup {k} |-> IF x = k THEN v ELSE m[x]]

EmptyMap == [x \in {} |-> 0]

-----------------------------------------------------------------------------
(* CacheManager *)

\* addBuyOrder(clientOid, price, size): status pending, timestamp now
addBuyOrder(buys, clientOid, price, size) ==
    MapSet(buys, clientOid, [price |-> price, size |-> size, status |-> "pending", aged |-> FALSE])

\* removeBuyOrder(clientOid)
removeBuyOrder(buys, clientOid) ==
    IF clientOid \in DOMAIN buys THEN MapDelete(buys, clientOid) ELSE buys

\* addSellOrder(price, orderInfo)
addSellOrder(sells, price, clientOid, size) ==
    MapSet(sells, price, [clientOid |-> clientOid, price |-> price, size |-> size,
                          status |-> "pending", aged |-> FALSE])

\* removeSellOrder(price)
removeSellOrder(sells, price) ==
    IF price \in DOMAIN sells THEN MapDelete(sells, price) ELSE sells

\* addFilledBuyOrder(price, details)
addFilledBuyOrder(filled, price, clientOid, size) ==
    MapSet(filled, price, [clientOid |-> clientOid, price |-> price, size |-> size])

\* removeFilledBuyOrder(price)
removeFilledBuyOrder(filled, price) ==
    IF price \in DOMAIN filled THEN MapDelete(filled, price) ELSE filled

\* the mutant of canPlaceOrder: the check of the active buy orders is dropped
canPlaceOrder_noBuyCheck(buys, sells, filled, price, step) ==
    /\ (price + step) \notin DOMAIN sells
    /\ price \notin DOMAIN filled

\* the mutant of canPlaceOrder: the check of the filled buys is dropped
canPlaceOrder_noFilledCheck(buys, sells, filled, price, step) ==
    /\ ~ \E id \in DOMAIN buys : buys[id].price = price
    /\ (price + step) \notin DOMAIN sells

\* canPlaceOrder(price, step)
canPlaceOrder(buys, sells, filled, price, step) ==
    /\ ~ \E id \in DOMAIN buys : buys[id].price = price
    /\ (price + step) \notin DOMAIN sells
    /\ price \notin DOMAIN filled

\* updateOrderStatus(clientOid, status, 'buy')
updateOrderStatus(buys, clientOid, status) ==
    IF clientOid \in DOMAIN buys
    THEN [buys EXCEPT ![clientOid].status = status]
    ELSE buys

\* cleanPendingOrders(maxPendingTimeMs), the loop over buyCurrentOrders
cleanPendingBuys(buys) ==
    [id \in { i \in DOMAIN buys : ~ (buys[i].status = "pending" /\ buys[i].aged) } |-> buys[id]]

\* cleanPendingOrders(maxPendingTimeMs), the loop over sellCurrentOrders
cleanPendingSells(sells) ==
    [p \in { q \in DOMAIN sells : ~ (sells[q].status = "pending" /\ sells[q].aged) } |-> sells[p]]

\* cleanPendingOrders(maxPendingTimeMs): removedCount, the value it returns
cleanPendingOrdersReturn(buys, sells) ==
    Cardinality({ i \in DOMAIN buys : buys[i].status = "pending" /\ buys[i].aged })
        + Cardinality({ q \in DOMAIN sells : sells[q].status = "pending" /\ sells[q].aged })

\* the entry of sellCurrentOrders holding clientOid (the first one the loops find)
SellPricesOf(sells, clientOid) == { p \in DOMAIN sells : sells[p].clientOid = clientOid }

\* remove the sell order holding clientOid (for ... break loops of the message handlers)
removeSellByOid(sells, clientOid) ==
    IF SellPricesOf(sells, clientOid) = {}
    THEN sells
    ELSE removeSellOrder(sells, CHOOSE p \in SellPricesOf(sells, clientOid) : TRUE)

\* ids of a set of buy orders, sorted by ascending price (stable: insertion order on ties)
RECURSIVE SortAscByPrice(_, _)
SortAscByPrice(buys, ids) ==
    IF ids = {} THEN << >>
    ELSE LET m == CHOOSE i \in ids : \A j \in ids :
                      \/ buys[i].price < buys[j].price
                      \/ (buys[i].price = buys[j].price /\ i.n <= j.n)
         IN  << m >> \o SortAscByPrice(buys, ids \ {m})

\* the mutant of getOrdersToCancel: the excess is taken from the high end
getOrdersToCancel_highest(buys, max) ==
    IF Cardinality(DOMAIN buys) <= max THEN << >>
    ELSE SubSeq(SortAscByPrice(buys, DOMAIN buys), max + 1, Cardinality(DOMAIN buys))

\* getOrdersToCancel(maxOrders)
getOrdersToCancel(buys, max) ==
    IF Cardinality(DOMAIN buys) <= max THEN << >>
    ELSE SubSeq(SortAscByPrice(buys, DOMAIN buys), 1, Cardinality(DOMAIN buys) - max)

Abs(x) == IF x < 0 THEN -x ELSE x

\* ids of live buy orders, farthest from targetPrice first (stable)
RECURSIVE SortByDistanceDesc(_, _, _)
SortByDistanceDesc(buys, ids, target) ==
    IF ids = {} THEN << >>
    ELSE LET m == CHOOSE i \in ids : \A j \in ids :
                      \/ Abs(buys[i].price - target) > Abs(buys[j].price - target)
                      \/ (Abs(buys[i].price - target) = Abs(buys[j].price - target) /\ i.n <= j.n)
         IN  << m >> \o SortByDistanceDesc(buys, ids \ {m}, target)

\* the mutant of getActiveBuyOrdersSortedByDistance: the filter on live is dropped
getActiveBuyOrdersSortedByDistance_anyStatus(buys, target) ==
    SortByDistanceDesc(buys, DOMAIN buys, target)

\* getActiveBuyOrdersSortedByDistance(targetPrice)
getActiveBuyOrdersSortedByDistance(buys, target) ==
    SortByDistanceDesc(buys, { i \in DOMAIN buys : buys[i].status = "live" }, target)

-----------------------------------------------------------------------------
(* CacheManager: persistence *)

\* a field of the parsed file given to new Map(...): an iterable of entries, or
\* a value new Map throws on
MapField(entries) == [iterable |-> TRUE, entries |-> entries]

NotIterable == [iterable |-> FALSE, entries |-> EmptyMap]

\* a content of a file: none (the file does not exist), text JSON.parse throws
\* on (a truncated or overwritten snapshot), or the text of an object with the
\* fields of a snapshot
FileContent(kind, buys, sells, filled, price) ==
    [kind |-> kind, buyCurrentOrders |-> buys, sellCurrentOrders |-> sells,
     buyFilledOrders |-> filled, lastPrice |-> price]

Missing ==
    FileContent("missing", MapField(EmptyMap), MapField(EmptyMap), MapField(EmptyMap), NoPrice)

Unparsable ==
    FileContent("unparsable", MapField(EmptyMap), MapField(EmptyMap), MapField(EmptyMap), NoPrice)

\* JSON.stringify(cacheData) of saveToFile and saveSyncAndWait
cacheData(store) ==
    FileContent("json", MapField(store.buys), MapField(store.sells), MapField(store.filled),
                store.lastPrice)

\* the maps and the price of the CacheManager
Store(buys, sells, filled, price) ==
    [buys |-> buys, sells |-> sells, filled |-> filled, lastPrice |-> price]

\* loadFromFile(): existsSync, readFileSync, JSON.parse, then the fields are
\* assigned one by one inside the try; an exception leaves what was assigned
loadFromFile(store, file) ==
    IF file.kind = "missing" THEN store
    ELSE IF file.kind = "unparsable" THEN store
    ELSE IF ~ file.buyCurrentOrders.iterable THEN store
    ELSE LET s1 == [store EXCEPT !.buys = file.buyCurrentOrders.entries]
         IN  IF ~ file.sellCurrentOrders.iterable THEN s1
             ELSE LET s2 == [s1 EXCEPT !.sells = file.sellCurrentOrders.entries]
                  IN  IF ~ file.buyFilledOrders.iterable THEN s2
                      ELSE [s2 EXCEPT !.filled = file.buyFilledOrders.entries,
                                      !.lastPrice = file.lastPrice]

\* no asynchronous file operation is outstanding
NoFsOp == [phase |-> "none", data |-> Missing]

-----------------------------------------------------------------------------
(* History records *)

StoreOp(clientOid, side, price, size) ==
    [op |-> "store", clientOid |-> clientOid, side |-> side, price |-> price, size |-> size]

SendOp(clientOid, side, price, size) ==
    [op |-> "send", clientOid |-> clientOid, side |-> side, price |-> price, size |-> size]

CancelOp(clientOid) ==
    [op |-> "cancel", clientOid |-> clientOid, side |-> clientOid.side, price |-> NoPrice, size |-> 0]

QueueOp(clientOid) ==
    [op |-> "queue", clientOid |-> clientOid, side |-> clientOid.side, price |-> NoPrice, size |-> 0]

\* resolve(totalOrdersPlaced) of placeOrdersInWaves(side, ordersData): size is the count
ResolveOp(side, totalOrdersPlaced) ==
    [op |-> "resolve", clientOid |-> NoOid, side |-> side, price |-> NoPrice,
     size |-> totalOrdersPlaced]

\* an order message of the trading connection (channel orders)
Event(clientOid, status, price, size, newSize) ==
    [clientOid |-> clientOid, status |-> status, price |-> price,
     size |-> size, newSize |-> newSize]

NoRecovery == [clientOid |-> NoOid, price |-> NoPrice]

-----------------------------------------------------------------------------
(* The part of the state the handlers of OrderManager and WebSocketManager  *)
(* read and write, threaded through them as a record.                       *)

Ready == privateConnected /\ isAuthenticated

Cur == [ buys |-> buyCurrentOrders, sells |-> sellCurrentOrders, filled |-> buyFilledOrders,
         stats |-> stats, flagIB |-> isHandlingInsufficientBalance, rec |-> recovery,
         lst |-> orderCancelledListeners,
         mq |-> messageQueue, oid |-> nextOid, wp |-> wirePlace, wc |-> wireCancel,
         ops |-> << >> ]

Commit(st) ==
    /\ buyCurrentOrders' = st.buys
    /\ sellCurrentOrders' = st.sells
    /\ buyFilledOrders' = st.filled
    /\ stats' = st.stats
    /\ isHandlingInsufficientBalance' = st.flagIB
    /\ recovery' = st.rec
    /\ orderCancelledListeners' = st.lst
    /\ messageQueue' = st.mq
    /\ nextOid' = st.oid
    /\ wirePlace' = st.wp
    /\ wireCancel' = st.wc
    /\ lastOps' = st.ops

Cmd(clientOid, side, price, size) ==
    [clientOid |-> clientOid, side |-> side, price |-> price, size |-> size]

-----------------------------------------------------------------------------
(* WebSocketManager: the command surface *)

\* placeOrder(clientOid, side, price, size): written to the socket at once
wsPlaceOrder(st, clientOid, side, price, size) ==
    IF ~ Ready THEN st
    ELSE [st EXCEPT !.wp = @ \cup {Cmd(clientOid, side, price, size)},
                    !.ops = Append(@, SendOp(clientOid, side, price, size))]

\* cancelOrder(clientOid): put on the outbound queue
wsCancelOrder(st, clientOid) ==
    IF ~ Ready THEN st
    ELSE [st EXCEPT !.mq = Append(@, clientOid),
                    !.ops = Append(@, QueueOp(clientOid))]

\* placeBulkOrders(orders): every order written to the socket at once
RECURSIVE wsPlaceBulkOrders(_, _)
wsPlaceBulkOrders(st, orders) ==
    IF ~ Ready \/ orders = << >> THEN st
    ELSE LET o == Head(orders)
         IN  wsPlaceBulkOrders(
                 [st EXCEPT !.wp = @ \cup {o},
                            !.ops = Append(@, SendOp(o.clientOid, o.side, o.price, o.size))],
                 Tail(orders))

\* cancelBulkOrders(clientOids): every cancel written to the socket at once
RECURSIVE wsCancelBulkOrders(_, _)
wsCancelBulkOrders(st, clientOids) ==
    IF ~ Ready \/ clientOids = << >> THEN st
    ELSE wsCancelBulkOrders(
             [st EXCEPT !.wc = @ \cup {Head(clientOids)},
                        !.ops = Append(@, CancelOp(Head(clientOids)))],
             Tail(clientOids))

-----------------------------------------------------------------------------
(* OrderManager *)

\* calculateOrderSize(price): orderAmountUSDT / price, toFixed(sizePrecision)
calculateOrderSize(price) ==
    (2 * orderAmountUSDT * Pow10(sizePrecision) + price) \div (2 * price)

\* the size addBuyOrder is given: the first definition passes orderSize, the
\* second calls addBuyOrder(clientOid, price), leaving size undefined
CachedBuySize(price) == IF omVersion = 1 THEN calculateOrderSize(price) ELSE NaN

\* the value placeBuyOrder(price) returns: null, or the clientOid it generated
placeBuyOrderReturn(st, price) ==
    IF ~ canPlaceOrder(st.buys, st.sells, st.filled, price, priceStep) THEN NoOid
    ELSE Oid("buy", st.oid)

\* the mutant of placeBuyOrder: the counter is incremented before the test
placeBuyOrder_countsRefused(st, price) ==
    IF ~ canPlaceOrder(st.buys, st.sells, st.filled, price, priceStep)
    THEN [st EXCEPT !.stats.ordersPlaced = @ + 1]
    ELSE LET clientOid == Oid("buy", st.oid)
             orderSize == calculateOrderSize(price)
             s1 == [st EXCEPT !.buys = addBuyOrder(@, clientOid, price, CachedBuySize(price)),
                              !.ops = Append(@, StoreOp(clientOid, "buy", price, CachedBuySize(price))),
                              !.oid = @ + 1]
             s2 == wsPlaceOrder(s1, clientOid, "buy", price, orderSize)
         IN  [s2 EXCEPT !.stats.ordersPlaced = @ + 1]

\* placeBuyOrder(price)
placeBuyOrder(st, price) ==
    IF ~ canPlaceOrder(st.buys, st.sells, st.filled, price, priceStep) THEN st
    ELSE LET clientOid == Oid("buy", st.oid)
             orderSize == calculateOrderSize(price)
             s1 == [st EXCEPT !.buys = addBuyOrder(@, clientOid, price, CachedBuySize(price)),
                              !.ops = Append(@, StoreOp(clientOid, "buy", price, CachedBuySize(price))),
                              !.oid = @ + 1]
             s2 == wsPlaceOrder(s1, clientOid, "buy", price, orderSize)
         IN  [s2 EXCEPT !.stats.ordersPlaced = @ + 1]

\* placeSellOrder(price, size): the command is written first, the record second
placeSellOrder(st, price, orderSize) ==
    LET clientOid == Oid("sell", st.oid)
        s1 == wsPlaceOrder([st EXCEPT !.oid = @ + 1], clientOid, "sell", price, orderSize)
        s2 == [s1 EXCEPT !.sells = addSellOrder(@, price, clientOid, orderSize),
                         !.ops = Append(@, StoreOp(clientOid, "sell", price, orderSize))]
    IN  [s2 EXCEPT !.stats.ordersPlaced = @ + 1]

\* the size of the sell placed for a filled buy: the first definition of
\* handleBuyOrderFilled passes the filled size on, the second one calls
\* placeSellOrder(sellPrice), which computes it from the quote budget
SellSizeForFill(sellPrice, size) ==
    IF omVersion = 1 THEN size ELSE calculateOrderSize(sellPrice)

\* handleBuyOrderFilled(data)
handleBuyOrderFilled(st, price, size) ==
    IF Falsy(price) THEN st
    ELSE IF omVersion = 1 /\ Falsy(size) THEN st
    ELSE LET sellPrice == price + priceStep
         IN  placeSellOrder([st EXCEPT !.stats.buyOrdersFilled = @ + 1],
                            sellPrice, SellSizeForFill(sellPrice, size))

\* handleSellOrderFilled(data)
handleSellOrderFilled(st) == [st EXCEPT !.stats.sellOrdersFilled = @ + 1]

\* placeBulkBuyOrders(pricesData): the loop that fills the cache and prepares the orders
RECURSIVE PrepareBulkBuy(_, _, _)
PrepareBulkBuy(st, prices, orders) ==
    IF prices = << >> THEN [st |-> st, orders |-> orders]
    ELSE LET price == Head(prices)
         IN  IF ~ canPlaceOrder(st.buys, st.sells, st.filled, price, priceStep)
             THEN PrepareBulkBuy(st, Tail(prices), orders)
             ELSE LET clientOid == Oid("buy", st.oid)
                      orderSize == calculateOrderSize(price)
                      s1 == [st EXCEPT
                               !.buys = addBuyOrder(@, clientOid, price, CachedBuySize(price)),
                               !.ops = Append(@, StoreOp(clientOid, "buy", price, CachedBuySize(price))),
                               !.oid = @ + 1,
                               !.stats.ordersPlaced = @ + 1]
                  IN  PrepareBulkBuy(s1, Tail(prices),
                                     Append(orders, Cmd(clientOid, "buy", price, orderSize)))

\* placeBulkBuyOrders(pricesData)
placeBulkBuyOrders(st, prices) ==
    LET r == PrepareBulkBuy(st, prices, << >>)
    IN  wsPlaceBulkOrders(r.st, r.orders)

\* the value placeBulkBuyOrders(pricesData) returns: 0 when no order was prepared,
\* otherwise what wsManager.placeBulkOrders(orders) returns, the number of orders
\* written to the socket (0 when the trading connection is not ready)
placeBulkBuyOrdersReturn(st, prices) ==
    LET r == PrepareBulkBuy(st, prices, << >>)
    IN  IF r.orders = << >> \/ ~ Ready THEN 0 ELSE Len(r.orders)

\* the mutant of totalOrdersPlaced: the count of the wave replaces the total
totalOrdersPlaced_lastWaveOnly(total, ordersPlaced) == ordersPlaced

\* totalOrdersPlaced += ordersPlaced of sendWave
totalOrdersPlaced(total, ordersPlaced) == total + ordersPlaced

\* ladder of desired prices: basePrice - i * priceStep, i = 0 .. maxOrders - 1
basePrice(currentPrice) == (currentPrice \div priceStep) * priceStep

\* the mutant of desiredLevels: the ladder starts one step below the base price
desiredLevels_belowBase(currentPrice) ==
    [i \in 1..configMaxOrders |-> basePrice(currentPrice) - i * priceStep]

desiredLevels(currentPrice) ==
    [i \in 1..configMaxOrders |-> basePrice(currentPrice) - (i - 1) * priceStep]

\* a set of clientOids in the order a Map iterates them: the order of insertion
RECURSIVE InsertionOrder(_)
InsertionOrder(ids) ==
    IF ids = {} THEN << >>
    ELSE LET m == CHOOSE i \in ids : \A j \in ids : i.n <= j.n
         IN  << m >> \o InsertionOrder(ids \ {m})

\* enforceMaxOrders(), first definition: the orders whose price is off the current ladder
OffGridOrders(buys, currentPrice) ==
    LET off == { id \in DOMAIN buys :
                    /\ buys[id].status \in {"live", "pending"}
                    /\ buys[id].price \notin Range(desiredLevels(currentPrice)) }
    IN  InsertionOrder(off)

\* enforceMaxOrders()
enforceMaxOrders(st, currentPrice) ==
    IF omVersion = 1
    THEN IF Falsy(currentPrice) THEN st
         ELSE wsCancelBulkOrders(st, OffGridOrders(st.buys, currentPrice))
    ELSE wsCancelBulkOrders(st, getOrdersToCancel(st.buys, configMaxOrders))

\* the ladder of a market price: base, base - step, ..., base - (N - 1) * step
\* with base = floor(marketPrice / step) * step and N = maxOrders
LadderPrices(marketPrice) ==
    { (marketPrice \div priceStep) * priceStep - i * priceStep : i \in 0..(maxOrders - 1) }

Min(a, b) == IF a <= b THEN a ELSE b

\* for (i = 0; i < list.length; i += k) waves.push(list.slice(i, min(i + k, length)))
Chunks(list, k) ==
    [w \in 1..((Len(list) + k - 1) \div k) |->
        SubSeq(list, (w - 1) * k + 1, Min(w * k, Len(list)))]

\* the mutant of generateOptimizedWaves: maxPerWave is not limited to 49
generateOptimizedWaves_noLimit(ordersData, maxPerWave) ==
    LET totalOrders == Len(ordersData)
        lastWaveSize == totalOrders % maxPerWave
        redistributeLastWave == lastWaveSize > 0 /\ 4 * lastWaveSize < maxPerWave
        fullWaves == totalOrders \div maxPerWave
        ordersPerWave == (totalOrders + fullWaves - 1) \div fullWaves
    IN  IF totalOrders <= maxPerWave THEN << ordersData >>
        ELSE IF redistributeLastWave /\ fullWaves >= 1
             THEN Chunks(ordersData, Min(ordersPerWave, maxPerWave))
             ELSE Chunks(ordersData, maxPerWave)

\* generateOptimizedWaves(ordersData, maxPerWave) of the second definition
generateOptimizedWaves(ordersData, maxPerWave) ==
    LET totalOrders == Len(ordersData)
        safeMaxPerWave == Min(maxPerWave, BitGetMaxPerWave)
        lastWaveSize == totalOrders % safeMaxPerWave
        redistributeLastWave == lastWaveSize > 0 /\ 4 * lastWaveSize < safeMaxPerWave
        fullWaves == totalOrders \div safeMaxPerWave
        ordersPerWave == (totalOrders + fullWaves - 1) \div fullWaves
    IN  IF totalOrders <= safeMaxPerWave THEN << ordersData >>
        ELSE IF redistributeLastWave /\ fullWaves >= 1
             THEN Chunks(ordersData, Min(ordersPerWave, safeMaxPerWave))
             ELSE Chunks(ordersData, safeMaxPerWave)

\* the waves placeOrdersInWaves(side, ordersData) builds when massOrders.waveSize
\* is maxPerWave: slices of waveSize in the first definition, the result of
\* generateOptimizedWaves in the second
SplitIntoWaves(ordersData, maxPerWave) ==
    IF omVersion = 1 THEN Chunks(ordersData, maxPerWave)
    ELSE generateOptimizedWaves(ordersData, maxPerWave)

\* the waves of placeOrdersInWaves(side, ordersData)
WavesOf(ordersData) == SplitIntoWaves(ordersData, waveSize)

-----------------------------------------------------------------------------
(* OrderManager: insufficient-balance recovery (first definition only) *)

\* the mutant of handleInsufficientBalance: the in-flight flag is not tested
handleInsufficientBalance_noFlagTest(st, failedOrderPrice) ==
    LET activeBuyOrders == getActiveBuyOrdersSortedByDistance(st.buys, failedOrderPrice)
        eligibleOrders == SelectSeq(activeBuyOrders,
                                    LAMBDA id : st.buys[id].price < failedOrderPrice)
    IN  IF eligibleOrders = << >> THEN st
        ELSE LET furthestOrder == Head(eligibleOrders)
                 s1 == wsCancelOrder(st, furthestOrder)
             IN  [s1 EXCEPT !.flagIB = TRUE,
                            !.rec = [clientOid |-> furthestOrder, price |-> failedOrderPrice],
                            !.lst = @ \cup {furthestOrder}]

\* handleInsufficientBalance(orderDetails), up to the first await
handleInsufficientBalance(st, failedOrderPrice) ==
    IF st.flagIB THEN st
    ELSE LET activeBuyOrders == getActiveBuyOrdersSortedByDistance(st.buys, failedOrderPrice)
             eligibleOrders == SelectSeq(activeBuyOrders,
                                         LAMBDA id : st.buys[id].price < failedOrderPrice)
         IN  IF eligibleOrders = << >> THEN st
             ELSE LET furthestOrder == Head(eligibleOrders)
                      s1 == wsCancelOrder(st, furthestOrder)
                  IN  [s1 EXCEPT !.flagIB = TRUE,
                                 !.rec = [clientOid |-> furthestOrder, price |-> failedOrderPrice],
                                 !.lst = @ \cup {furthestOrder}]

\* emit('order_cancelled'): every onOrderCancelled listener that waits for the
\* clientOid removes itself; the one of the pending cancelPromise resolves it and
\* the code after `await cancelPromise` runs
onOrderCancelled(st, clientOid) ==
    LET s0 == [st EXCEPT !.lst = @ \ {clientOid}]
    IN  IF st.rec = NoRecovery \/ st.rec.clientOid # clientOid THEN s0
        ELSE LET s1 == placeBuyOrder(s0, st.rec.price)
             IN  [s1 EXCEPT !.flagIB = FALSE, !.rec = NoRecovery]

-----------------------------------------------------------------------------
(* WebSocketManager: inbound messages of the trading connection *)

\* filledSize = newSizeValue || sizeValue
FilledSize(e) == IF Falsy(e.newSize) THEN e.size ELSE e.newSize

\* the mutant of SellFilledBuyPrice: the step is not subtracted
SellFilledBuyPrice_sameLevel(priceValue) == priceValue

\* buyPrice = priceValue - this.config.priceStep
SellFilledBuyPrice(priceValue) == JsSub(priceValue, priceStep)

\* handleOrderUpdate(order), with the listeners its events reach
handleOrderUpdate(st, e) ==
    IF e.clientOid.side = "buy" THEN
        IF e.status = "live" THEN
            [st EXCEPT !.buys = updateOrderStatus(@, e.clientOid, "live")]
        ELSE IF e.status = "filled" THEN
            handleBuyOrderFilled(
                [st EXCEPT !.buys = removeBuyOrder(@, e.clientOid),
                           !.filled = addFilledBuyOrder(@, e.price, e.clientOid, FilledSize(e))],
                e.price, FilledSize(e))
        ELSE IF e.status = "cancelled" THEN
            onOrderCancelled(
                [st EXCEPT !.buys = removeBuyOrder(@, e.clientOid)],
                e.clientOid)
        ELSE st
    ELSE IF e.clientOid.side = "sell" THEN
        IF e.status = "filled" THEN
            handleSellOrderFilled(
                [st EXCEPT !.filled = removeFilledBuyOrder(@, SellFilledBuyPrice(e.price)),
                           !.sells = removeSellOrder(@, e.price)])
        ELSE IF e.status = "cancelled" THEN
            [st EXCEPT !.sells = removeSellByOid(@, e.clientOid)]
        ELSE st
    ELSE st

\* the mutant of handleTooManyRequests: the sell orders are not looked up
handleTooManyRequests_buyOnly(st, clientOid) ==
    [st EXCEPT !.buys = removeBuyOrder(@, clientOid)]

\* the 'error' branch of the message handler: code 429 on place-order
handleTooManyRequests(st, clientOid) ==
    IF clientOid.side = "buy"
    THEN [st EXCEPT !.buys = removeBuyOrder(@, clientOid)]
    ELSE [st EXCEPT !.sells = removeSellByOid(@, clientOid)]

\* the 'error' branch: code 43012 on place-order emits insufficient_balance,
\* which only the first definition of OrderManager listens to
handleInsufficientBalanceError(st, price) ==
    IF omVersion = 1 THEN handleInsufficientBalance(st, price) ELSE st

\* the 'error' branch: code 43001 on cancel-order
handleUnknownOrderOnCancel(st, clientOid) ==
    [st EXCEPT !.buys = removeBuyOrder(@, clientOid)]

-----------------------------------------------------------------------------
(* Initial state: the components right after construction (main) *)

\* no wave split has been computed
NoWaveCall == [ordersData |-> << >>, maxPerWave |-> 0, waves |-> << >>]

\* the constructors of CacheManager, WebSocketManager, OrderManager, GridStrategy
Constructed ==
    /\ waveCall = NoWaveCall
    /\ buyCurrentOrders = EmptyMap
    /\ sellCurrentOrders = EmptyMap
    /\ buyFilledOrders = EmptyMap
    /\ lastPrice = NoPrice
    /\ stats = [ordersPlaced |-> 0, buyOrdersFilled |-> 0, sellOrdersFilled |-> 0]
    /\ isHandlingInsufficientBalance = FALSE
    /\ recovery = NoRecovery
    /\ orderCancelledListeners = {}
    /\ running = FALSE
    /\ isPlacingOrders = FALSE
    /\ waveProcs = << >>
    /\ privateConnected = FALSE
    /\ isAuthenticated = FALSE
    /\ messageQueue = << >>
    /\ nextOid = 1
    /\ wirePlace = {}
    /\ wireCancel = {}
    /\ venueOpen = {}
    /\ lastOps = << >>
    /\ procPhase = "constructed"
    /\ isSaving = FALSE
    /\ saveIntervalId = FALSE
    /\ tempFile = Missing
    /\ fsOp = NoFsOp
    /\ wsPhase = "constructed"
    /\ publicConnected = FALSE
    /\ sockets = [ch \in Channels |-> << >>]
    /\ ws = [ch \in Channels |-> 0]
    /\ reconnectAttempts = [ch \in Channels |-> 0]
    /\ reconnectTimers = [ch \in Channels |-> << >>]
    /\ pingInterval = [ch \in Channels |-> FALSE]
    /\ strayPingInterval = [ch \in Channels |-> FALSE]
    /\ pongTimeouts = [ch \in Channels |-> {}]
    /\ scheduledReconnect = [ch \in Channels |-> "null"]
    /\ strayScheduledReconnect = [ch \in Channels |-> FALSE]
    /\ loginSent = {}
    /\ subscribed = [ch \in Channels |-> {}]

\* no cache file is on the disk
Init ==
    /\ omVersion \in {1, 2}
    /\ configMaxOrders = maxOrders
    /\ oidLimit = MaxOids
    /\ cacheFile = Missing
    /\ socketLimit = [ch \in Channels |-> MaxSockets]
    /\ Constructed

\* the bound on the clientOids
WithinBounds(st) == st.oid <= oidLimit + 1

RemoveAt(seq, i) == SubSeq(seq, 1, i - 1) \o SubSeq(seq, i + 1, Len(seq))

-----------------------------------------------------------------------------
(* Connections *)

\* publicWs 'message' with a ticker: cacheManager.updatePrice(price)
PriceUpdate(price) ==
    /\ price # lastPrice
    /\ lastPrice' = price
    /\ lastOps' = << >>
    /\ UNCHANGED << connVars, persistVars, omVersion, configMaxOrders, oidLimit, waveCall, running, buyCurrentOrders, sellCurrentOrders, buyFilledOrders, stats,
                    isHandlingInsufficientBalance, recovery, orderCancelledListeners, isPlacingOrders, waveProcs,
                    privateConnected, isAuthenticated, messageQueue, nextOid, wirePlace,
                    wireCancel, venueOpen >>

ConnUnchanged ==
    UNCHANGED << connVars, persistVars, omVersion, configMaxOrders, oidLimit, waveCall, running, buyCurrentOrders, sellCurrentOrders, buyFilledOrders, lastPrice,
                 stats, isHandlingInsufficientBalance, recovery, orderCancelledListeners, isPlacingOrders, waveProcs,
                 messageQueue, nextOid, wirePlace, wireCancel, venueOpen >>

\* privateWs 'open'
PrivateOpen ==
    /\ ~ privateConnected
    /\ privateConnected' = TRUE
    /\ UNCHANGED isAuthenticated
    /\ lastOps' = << >>
    /\ ConnUnchanged

\* privateWs 'message' with event login, code 0
LoginOk ==
    /\ privateConnected
    /\ ~ isAuthenticated
    /\ isAuthenticated' = TRUE
    /\ UNCHANGED privateConnected
    /\ lastOps' = << >>
    /\ ConnUnchanged

\* privateWs 'close'
PrivateClose ==
    /\ privateConnected
    /\ privateConnected' = FALSE
    /\ isAuthenticated' = FALSE
    /\ lastOps' = << >>
    /\ ConnUnchanged

\* processMessageQueue(): one queued message per ticker period
ProcessMessageQueue ==
    /\ messageQueue # << >>
    /\ privateConnected
    /\ Commit([Cur EXCEPT !.mq = Tail(@),
                          !.wc = @ \cup {Head(messageQueue)},
                          !.ops = << CancelOp(Head(messageQueue)) >>])
    /\ UNCHANGED << connVars, persistVars, omVersion, configMaxOrders, oidLimit, waveCall, running, lastPrice, isPlacingOrders, waveProcs, privateConnected,
                    isAuthenticated, venueOpen >>

-----------------------------------------------------------------------------
(* Time *)

\* more than maxPendingTimeMs (1500 ms) elapse
TimePasses ==
    /\ \/ \E id \in DOMAIN buyCurrentOrders : ~ buyCurrentOrders[id].aged
       \/ \E p \in DOMAIN sellCurrentOrders : ~ sellCurrentOrders[p].aged
    /\ buyCurrentOrders' = [id \in DOMAIN buyCurrentOrders |->
                               [buyCurrentOrders[id] EXCEPT !.aged = TRUE]]
    /\ sellCurrentOrders' = [p \in DOMAIN sellCurrentOrders |->
                               [sellCurrentOrders[p] EXCEPT !.aged = TRUE]]
    /\ lastOps' = << >>
    /\ UNCHANGED << connVars, persistVars, omVersion, configMaxOrders, oidLimit, waveCall, running, buyFilledOrders, lastPrice, stats,
                    isHandlingInsufficientBalance, recovery, orderCancelledListeners, isPlacingOrders, waveProcs,
                    privateConnected, isAuthenticated, messageQueue, nextOid, wirePlace,
                    wireCancel, venueOpen >>

-----------------------------------------------------------------------------
(* GridStrategy *)

\* the placement gap of updateGridOrders: the ladder prices where canPlaceOrder holds
newPriceLevels(st, currentPrice) ==
    SelectSeq(desiredLevels(currentPrice),
              LAMBDA p : canPlaceOrder(st.buys, st.sells, st.filled, p, priceStep))

\* updateGridOrders(currentPrice): one reconciliation pass
updateGridOrders ==
    /\ LET s0 == [Cur EXCEPT !.buys = cleanPendingBuys(@),
                             !.sells = cleanPendingSells(@)]
           s1 == enforceMaxOrders(s0, lastPrice)
           gap == newPriceLevels(s1, lastPrice)
           start == gap # << >> /\ ~ isPlacingOrders
           waves == WavesOf(gap)
           s2 == IF start THEN placeBulkBuyOrders(s1, waves[1]) ELSE s1
       IN  /\ WithinBounds(s2)
           /\ Commit(s2)
           /\ isPlacingOrders' = (isPlacingOrders \/ start)
           /\ waveProcs' = IF start
                           THEN Append(waveProcs,
                                       [waves |-> waves, sent |-> 1, timeout |-> TRUE,
                                        placed |-> totalOrdersPlaced(
                                                       0, placeBulkBuyOrdersReturn(s1, waves[1]))])
                           ELSE waveProcs
    /\ UNCHANGED << connVars, persistVars, omVersion, configMaxOrders, oidLimit, waveCall, lastPrice, privateConnected, isAuthenticated, venueOpen >>

\* main(): connect() has resolved (the trading socket is open) and a price is
\* known; start() -> placeInitialOrders() -> updateGridOrders(currentPrice)
Start ==
    /\ ~ running
    /\ privateConnected
    /\ ~ Falsy(lastPrice)
    /\ running' = TRUE
    /\ updateGridOrders

\* the updateInterval timer: updateOrders() -> updateGridOrders(currentPrice)
Tick ==
    /\ running
    /\ ~ Falsy(lastPrice)
    /\ UNCHANGED running
    /\ updateGridOrders

\* the inter-wave timer of placeOrdersInWaves fires (every waveInterval = 1001 ms):
\* the next wave is sent, or the call resolves and the .then of updateGridOrders runs.
\* The second firing (2002 ms) comes after the forced release (2000 ms).
WaveTimer(i) ==
    /\ i \in DOMAIN waveProcs
    /\ waveProcs[i].sent = 1 \/ ~ waveProcs[i].timeout
    /\ IF waveProcs[i].sent < Len(waveProcs[i].waves)
       THEN LET currentWave == waveProcs[i].waves[waveProcs[i].sent + 1]
                s1 == placeBulkBuyOrders(Cur, currentWave)
            IN  /\ WithinBounds(s1)
                /\ Commit(s1)
                /\ waveProcs' = [waveProcs EXCEPT
                                    ![i].sent = @ + 1,
                                    ![i].placed = totalOrdersPlaced(
                                                      @, placeBulkBuyOrdersReturn(Cur, currentWave))]
                /\ UNCHANGED isPlacingOrders
       ELSE /\ Commit([Cur EXCEPT !.ops = << ResolveOp("buy", waveProcs[i].placed) >>])
            /\ waveProcs' = RemoveAt(waveProcs, i)
            /\ isPlacingOrders' = FALSE
    /\ UNCHANGED << connVars, persistVars, omVersion, configMaxOrders, oidLimit, waveCall, running, lastPrice, privateConnected, isAuthenticated, venueOpen >>

\* the placementTimeout of updateGridOrders without its forced release
PlacementTimeout_noRelease(i) ==
    /\ i \in DOMAIN waveProcs
    /\ waveProcs[i].timeout
    /\ waveProcs[i].sent >= 2
    /\ waveProcs' = [waveProcs EXCEPT ![i].timeout = FALSE]
    /\ UNCHANGED isPlacingOrders
    /\ Commit(Cur)
    /\ UNCHANGED << connVars, persistVars, omVersion, configMaxOrders, oidLimit, waveCall, running, lastPrice, privateConnected, isAuthenticated, venueOpen >>

\* placementTimeout of updateGridOrders fires (2000 ms): forced release of the flag
PlacementTimeout(i) ==
    /\ i \in DOMAIN waveProcs
    /\ waveProcs[i].timeout
    /\ waveProcs[i].sent >= 2
    /\ waveProcs' = [waveProcs EXCEPT ![i].timeout = FALSE]
    /\ isPlacingOrders' = FALSE
    /\ Commit(Cur)
    /\ UNCHANGED << connVars, persistVars, omVersion, configMaxOrders, oidLimit, waveCall, running, lastPrice, privateConnected, isAuthenticated, venueOpen >>

\* the 2000 ms timeout of the recovery's cancelPromise fires: catch, finally
RecoveryTimeout ==
    /\ recovery # NoRecovery
    /\ Commit([Cur EXCEPT !.flagIB = FALSE, !.rec = NoRecovery])
    /\ UNCHANGED << connVars, persistVars, omVersion, configMaxOrders, oidLimit, waveCall, running, lastPrice, isPlacingOrders, waveProcs, privateConnected,
                    isAuthenticated, venueOpen >>

-----------------------------------------------------------------------------
(* The venue.  A notification reaches the client only while the trading    *)
(* connection is ready; otherwise it is lost.                              *)

Deliver(st, e) == IF Ready THEN handleOrderUpdate(st, e) ELSE st

VenueUnchanged ==
    UNCHANGED << connVars, persistVars, omVersion, configMaxOrders, oidLimit, waveCall, running, lastPrice, isPlacingOrders, waveProcs, privateConnected,
                 isAuthenticated >>

VenueOrder(cmd) == cmd

\* the socket delivers the placement commands in the order they were written
\* (the serial numbers of the clientOids follow that order)
NextOnWire(cmd) ==
    /\ cmd \in wirePlace
    /\ \A c \in wirePlace : cmd.clientOid.n <= c.clientOid.n

\* a post-only order that would match an own resting order is not accepted
Crosses(cmd) ==
    \/ cmd.side = "buy" /\ \E o \in venueOpen : o.side = "sell" /\ o.price <= cmd.price
    \/ cmd.side = "sell" /\ \E o \in venueOpen : o.side = "buy" /\ o.price >= cmd.price

\* the venue accepts a placement: the order rests, status live is reported
VenueAccept(cmd) ==
    /\ NextOnWire(cmd)
    /\ ~ Crosses(cmd)
    /\ LET e == Event(cmd.clientOid, "live", cmd.price, cmd.size, NaN)
       IN  /\ Commit(Deliver([Cur EXCEPT !.wp = @ \ {cmd}], e))
    /\ venueOpen' = venueOpen \cup {VenueOrder(cmd)}
    /\ VenueUnchanged

\* the venue cancels a post-only placement that would match a resting order,
\* an own one or one of another participant (the market has moved since the
\* command was written): status cancelled
VenueRefusePostOnly(cmd) ==
    /\ NextOnWire(cmd)
    /\ LET e == Event(cmd.clientOid, "cancelled", cmd.price, cmd.size, NaN)
           s1 == Deliver([Cur EXCEPT !.wp = @ \ {cmd}], e)
       IN  /\ WithinBounds(s1)
           /\ Commit(s1)
    /\ UNCHANGED venueOpen
    /\ VenueUnchanged

\* the venue rejects a placement with code 429 (Too Many Requests)
VenueTooManyRequests(cmd) ==
    /\ NextOnWire(cmd)
    /\ LET s0 == [Cur EXCEPT !.wp = @ \ {cmd}]
       IN  Commit(IF Ready THEN handleTooManyRequests(s0, cmd.clientOid) ELSE s0)
    /\ UNCHANGED venueOpen
    /\ VenueUnchanged

\* the venue rejects a placement with code 43012 (insufficient balance)
VenueInsufficientBalance(cmd) ==
    /\ NextOnWire(cmd)
    /\ LET s0 == [Cur EXCEPT !.wp = @ \ {cmd}]
           s1 == IF Ready THEN handleInsufficientBalanceError(s0, cmd.price) ELSE s0
       IN  /\ WithinBounds(s1)
           /\ Commit(s1)
    /\ UNCHANGED venueOpen
    /\ VenueUnchanged

\* price-time priority: the best bid and the best ask trade first
CanTrade(o) ==
    IF o.side = "buy"
    THEN \A q \in venueOpen : q.side = "buy" => q.price <= o.price
    ELSE \A q \in venueOpen : q.side = "sell" => q.price >= o.price

\* the fields of a fill notification: complete without or with newSize (the
\* executed quantity), or with price or size missing
FillShapes == {"ok", "newSize", "noPrice", "noSize"}

FillEvent(o, shape) ==
    Event(o.clientOid, "filled",
          IF shape = "noPrice" THEN NaN ELSE o.price,
          IF shape = "noSize" THEN NaN ELSE o.size,
          IF shape = "newSize" THEN o.size - 1 ELSE NaN)

\* a resting order is executed: status filled is reported
VenueFill(o, shape) ==
    /\ o \in venueOpen
    /\ CanTrade(o)
    /\ LET e == FillEvent(o, shape)
           s1 == Deliver(Cur, e)
       IN  /\ WithinBounds(s1)
           /\ Commit(s1)
    /\ venueOpen' = venueOpen \ {o}
    /\ VenueUnchanged

\* the venue handles a cancel command: the order is cancelled (status
\* cancelled), or it is unknown (code 43001)
VenueCancel(clientOid) ==
    /\ clientOid \in wireCancel
    /\ ~ \E cmd \in wirePlace : cmd.clientOid = clientOid
    /\ LET s0 == [Cur EXCEPT !.wc = @ \ {clientOid}]
           open == { o \in venueOpen : o.clientOid = clientOid }
       IN  IF open # {}
           THEN LET o == CHOOSE x \in open : TRUE
                    e == Event(clientOid, "cancelled", o.price, o.size, NaN)
                    s1 == Deliver(s0, e)
                IN  /\ WithinBounds(s1)
                    /\ Commit(s1)
                    /\ venueOpen' = venueOpen \ open
           ELSE /\ Commit(IF Ready THEN handleUnknownOrderOnCancel(s0, clientOid) ELSE s0)
                /\ UNCHANGED venueOpen
    /\ VenueUnchanged

-----------------------------------------------------------------------------

Next ==
    \/ \E price \in PriceSamples : PriceUpdate(price)
    \/ PrivateOpen
    \/ LoginOk
    \/ PrivateClose
    \/ ProcessMessageQueue
    \/ TimePasses
    \/ Start
    \/ Tick
    \/ \E i \in DOMAIN waveProcs : WaveTimer(i)
    \/ \E i \in DOMAIN waveProcs : PlacementTimeout(i)
    \/ RecoveryTimeout
    \/ \E cmd \in wirePlace : VenueAccept(cmd)
    \/ \E cmd \in wirePlace : VenueRefusePostOnly(cmd)
    \/ \E cmd \in wirePlace : VenueTooManyRequests(cmd)
    \/ \E cmd \in wirePlace : VenueInsufficientBalance(cmd)
    \/ \E o \in venueOpen, shape \in FillShapes : VenueFill(o, shape)
    \/ \E clientOid \in wireCancel : VenueCancel(clientOid)

Spec == Init /\ [][Next]_vars

-----------------------------------------------------------------------------
(* The reconciliation loop under a fixed market price: the first ticker sets *)
(* the price and no later ticker changes it, the trading connection opens,   *)
(* logs in and stays, the venue accepts what it is sent and nothing is       *)
(* filled.  The timers of the program fire (weak fairness): setInterval of   *)
(* the reconciliation, the start-up timer, the wave timer, the placement     *)
(* timeout.                                                                  *)

InitFixedPrice ==
    /\ omVersion \in {1, 2}
    /\ configMaxOrders = maxOrders
    /\ oidLimit = MaxOidsFixedPrice
    /\ cacheFile = Missing
    /\ socketLimit = [ch \in Channels |-> MaxSockets]
    /\ Constructed

\* the first ticker of the public connection
FirstPrice(price) == lastPrice = NoPrice /\ PriceUpdate(price)

NextFixedPrice ==
    \/ \E price \in PriceSamples : FirstPrice(price)
    \/ PrivateOpen
    \/ LoginOk
    \/ TimePasses
    \/ Start
    \/ Tick
    \/ \E i \in DOMAIN waveProcs : WaveTimer(i)
    \/ \E i \in DOMAIN waveProcs : PlacementTimeout(i)
    \/ \E cmd \in wirePlace : VenueAccept(cmd)

SpecFixedPrice ==
    /\ InitFixedPrice
    /\ [][NextFixedPrice]_vars
    /\ WF_vars(\E price \in PriceSamples : FirstPrice(price))
    /\ WF_vars(PrivateOpen)
    /\ WF_vars(LoginOk)
    /\ WF_vars(Start)
    /\ WF_vars(Tick)
    /\ WF_vars(\E i \in DOMAIN waveProcs : WaveTimer(i))
    /\ WF_vars(\E i \in DOMAIN waveProcs : PlacementTimeout(i))

-----------------------------------------------------------------------------
(* The reconciliation loop with a ladder that takes three waves             *)
(* (config.maxOrders = 3 * config.massOrders.waveSize): the price is set    *)
(* once, the trading connection opens, logs in and stays, the venue accepts  *)
(* what it is sent and nothing is filled.                                    *)

InitLongBatch ==
    /\ omVersion \in {1, 2}
    /\ configMaxOrders = MaxOrdersLongBatch
    /\ oidLimit = MaxOids
    /\ cacheFile = Missing
    /\ socketLimit = [ch \in Channels |-> MaxSockets]
    /\ Constructed

SpecLongBatch == InitLongBatch /\ [][NextFixedPrice]_vars

-----------------------------------------------------------------------------
(* The insufficient-balance recovery, which only the first definition of     *)
(* OrderManager has: the venue accepts a placement or rejects it with code   *)
(* 43012, and handles the cancels; nothing is filled and the trading         *)
(* connection stays once it is open.                                         *)

InitRecovery ==
    /\ omVersion = 1
    /\ configMaxOrders = maxOrders
    /\ oidLimit = MaxOidsRecovery
    /\ cacheFile = Missing
    /\ socketLimit = [ch \in Channels |-> MaxSockets]
    /\ Constructed

NextRecovery ==
    \/ \E price \in PriceSamples : PriceUpdate(price)
    \/ PrivateOpen
    \/ LoginOk
    \/ ProcessMessageQueue
    \/ TimePasses
    \/ Start
    \/ Tick
    \/ \E i \in DOMAIN waveProcs : WaveTimer(i)
    \/ \E i \in DOMAIN waveProcs : PlacementTimeout(i)
    \/ RecoveryTimeout
    \/ \E cmd \in wirePlace : VenueAccept(cmd)
    \/ \E cmd \in wirePlace : VenueInsufficientBalance(cmd)
    \/ \E clientOid \in wireCancel : VenueCancel(clientOid)

SpecRecovery == InitRecovery /\ [][NextRecovery]_vars

-----------------------------------------------------------------------------
(* The cancel command of the Order Lifecycle Manager applied to any order of *)
(* the State Store, a buy or a sell: OrderManager.cancelOrder(clientOid).    *)
(* The reconciliation loop and the recovery call it for buy orders only.     *)

\* cancelOrder(clientOid) for an order of the store that has no cancel under way
CancelOrder(clientOid) ==
    /\ Ready
    /\ clientOid \notin Range(messageQueue)
    /\ clientOid \notin wireCancel
    /\ Commit(wsCancelOrder(Cur, clientOid))
    /\ UNCHANGED << connVars, persistVars, omVersion, configMaxOrders, oidLimit, waveCall, running, lastPrice, isPlacingOrders,
                    waveProcs, privateConnected, isAuthenticated, venueOpen >>

\* the clientOids of the orders of the State Store
TrackedOids ==
    DOMAIN buyCurrentOrders \cup { sellCurrentOrders[p].clientOid : p \in DOMAIN sellCurrentOrders }

NextCancel ==
    \/ \E price \in PriceSamples : FirstPrice(price)
    \/ PrivateOpen
    \/ LoginOk
    \/ ProcessMessageQueue
    \/ TimePasses
    \/ Start
    \/ Tick
    \/ \E i \in DOMAIN waveProcs : WaveTimer(i)
    \/ \E i \in DOMAIN waveProcs : PlacementTimeout(i)
    \/ RecoveryTimeout
    \/ \E clientOid \in TrackedOids : CancelOrder(clientOid)
    \/ \E cmd \in wirePlace : VenueAccept(cmd)
    \/ \E cmd \in wirePlace : VenueInsufficientBalance(cmd)
    \/ \E o \in venueOpen, shape \in FillShapes : VenueFill(o, shape)
    \/ \E clientOid \in wireCancel : VenueCancel(clientOid)

SpecCancel == Init /\ [][NextCancel]_vars

-----------------------------------------------------------------------------
(* The State Store on its own, with its persistence: main() builds the       *)
(* CacheManager and calls initPersistence(), which loads the cache file and  *)
(* sets the periodic save; the callers of the store add and remove buy       *)
(* orders; the file system completes the asynchronous writes and renames, or *)
(* fails them; SIGINT calls stopPersistence() and the process exits 2 s      *)
(* later.  The OrderManager and the connections take no part.                *)

StorePrices == LadderPrices(160)

\* the snapshot an earlier run has left: a live buy, a sell, a filled buy
SavedSnapshot ==
    Store(Oid("buy", 1) :> [price |-> 100, size |-> calculateOrderSize(100),
                            status |-> "live", aged |-> TRUE],
          200 :> [clientOid |-> Oid("sell", 2), price |-> 200, size |-> calculateOrderSize(150),
                  status |-> "pending", aged |-> TRUE],
          150 :> [clientOid |-> Oid("buy", 3), price |-> 150, size |-> calculateOrderSize(150)],
          160)

\* the contents the cache file may have when the process starts: none, text
\* that does not parse, or an object whose fields are the maps of the snapshot
\* or values that are not iterable
InitialFiles ==
    {Missing, Unparsable} \cup
    { FileContent("json", b, s, f, SavedSnapshot.lastPrice) :
        b \in {MapField(SavedSnapshot.buys), NotIterable},
        s \in {MapField(SavedSnapshot.sells), NotIterable},
        f \in {MapField(SavedSnapshot.filled), NotIterable} }

InitStore ==
    /\ omVersion = 1
    /\ configMaxOrders = maxOrders
    /\ oidLimit = MaxOids
    /\ cacheFile \in InitialFiles
    /\ socketLimit = [ch \in Channels |-> MaxSockets]
    /\ Constructed

CurStore == Store(buyCurrentOrders, sellCurrentOrders, buyFilledOrders, lastPrice)

CommitStore(store) ==
    /\ buyCurrentOrders' = store.buys
    /\ sellCurrentOrders' = store.sells
    /\ buyFilledOrders' = store.filled
    /\ lastPrice' = store.lastPrice

EngineUnchanged ==
    UNCHANGED << connVars, omVersion, configMaxOrders, oidLimit, waveCall, running, stats,
                 isHandlingInsufficientBalance,
                 recovery, orderCancelledListeners, isPlacingOrders, waveProcs, privateConnected, isAuthenticated,
                 messageQueue, nextOid, wirePlace, wireCancel, venueOpen, lastOps >>

\* main(): cacheManager.initPersistence(): loadFromFile(), setInterval(saveToFile)
InitPersistence ==
    /\ procPhase = "constructed"
    /\ procPhase' = "running"
    /\ CommitStore(loadFromFile(CurStore, cacheFile))
    /\ saveIntervalId' = TRUE
    /\ UNCHANGED << isSaving, cacheFile, tempFile, fsOp >>
    /\ EngineUnchanged

\* a caller records a pending buy order: cacheManager.addBuyOrder(clientOid, price, size)
StoreAddBuyOrder(clientOid, price) ==
    /\ procPhase = "running"
    /\ buyCurrentOrders' = addBuyOrder(buyCurrentOrders, clientOid, price, calculateOrderSize(price))
    /\ UNCHANGED << sellCurrentOrders, buyFilledOrders, lastPrice >>
    /\ UNCHANGED persistVars
    /\ EngineUnchanged

\* a caller removes a buy order: cacheManager.removeBuyOrder(clientOid)
StoreRemoveBuyOrder(clientOid) ==
    /\ procPhase = "running"
    /\ clientOid \in DOMAIN buyCurrentOrders
    /\ buyCurrentOrders' = removeBuyOrder(buyCurrentOrders, clientOid)
    /\ UNCHANGED << sellCurrentOrders, buyFilledOrders, lastPrice >>
    /\ UNCHANGED persistVars
    /\ EngineUnchanged

StoreUntouched ==
    UNCHANGED << buyCurrentOrders, sellCurrentOrders, buyFilledOrders, lastPrice >>

\* the periodic save timer: saveToFile(), up to the call of fs.writeFile
SaveToFile ==
    /\ procPhase = "running"
    /\ saveIntervalId
    /\ ~ isSaving
    /\ isSaving' = TRUE
    /\ fsOp' = [phase |-> "writeFile", data |-> cacheData(CurStore)]
    /\ UNCHANGED << procPhase, saveIntervalId, cacheFile, tempFile >>
    /\ StoreUntouched
    /\ EngineUnchanged

\* the callback of fs.writeFile(tempPath, ...): on an error the temporary file
\* holds a part of the text and the flag is cleared; otherwise fs.rename is called
WriteFileDone(ok) ==
    /\ procPhase \in {"running", "stopping"}
    /\ fsOp.phase = "writeFile"
    /\ IF ok
       THEN /\ tempFile' = fsOp.data
            /\ fsOp' = [phase |-> "rename", data |-> fsOp.data]
            /\ UNCHANGED isSaving
       ELSE /\ tempFile' = Unparsable
            /\ fsOp' = NoFsOp
            /\ isSaving' = FALSE
    /\ UNCHANGED << procPhase, saveIntervalId, cacheFile >>
    /\ StoreUntouched
    /\ EngineUnchanged

\* the callback of fs.rename(tempPath, cacheFilePath): the flag is cleared
RenameDone(ok) ==
    /\ procPhase \in {"running", "stopping"}
    /\ fsOp.phase = "rename"
    /\ IF ok
       THEN cacheFile' = tempFile /\ tempFile' = Missing
       ELSE UNCHANGED << cacheFile, tempFile >>
    /\ fsOp' = NoFsOp
    /\ isSaving' = FALSE
    /\ UNCHANGED << procPhase, saveIntervalId >>
    /\ StoreUntouched
    /\ EngineUnchanged

\* SIGINT: stopPersistence(): clearInterval, then saveSyncAndWait():
\* fs.writeFileSync(cacheFilePath, ...) writes the whole text, or throws after a
\* part of it was written
StopPersistence(ok) ==
    /\ procPhase = "running"
    /\ procPhase' = "stopping"
    /\ saveIntervalId' = FALSE
    /\ cacheFile' = IF ok THEN cacheData(CurStore) ELSE Unparsable
    /\ UNCHANGED << isSaving, tempFile, fsOp >>
    /\ StoreUntouched
    /\ EngineUnchanged

\* SIGINT handler, 2 s later: process.exit(0)
Exit ==
    /\ procPhase = "stopping"
    /\ procPhase' = "exited"
    /\ UNCHANGED << isSaving, saveIntervalId, cacheFile, tempFile, fsOp >>
    /\ StoreUntouched
    /\ EngineUnchanged

NextStore ==
    \/ InitPersistence
    \/ \E n \in 1..MaxStoreIds, price \in StorePrices : StoreAddBuyOrder(Oid("buy", n), price)
    \/ \E n \in 1..MaxStoreIds : StoreRemoveBuyOrder(Oid("buy", n))
    \/ SaveToFile
    \/ \E ok \in BOOLEAN : WriteFileDone(ok)
    \/ \E ok \in BOOLEAN : RenameDone(ok)
    \/ \E ok \in BOOLEAN : StopPersistence(ok)
    \/ Exit

SpecStore == InitStore /\ [][NextStore]_vars

-----------------------------------------------------------------------------
(* The wave split on its own: placeOrdersInWaves is given a list of 1 to     *)
(* MaxWaveInput ladder prices under a configured wave size of 1 to           *)
(* MaxWaveCap, and builds its waves.                                         *)

\* the list of n ladder prices, the highest first
OrdersData(n) == [i \in 1..n |-> priceStep * (MaxWaveInput + 2 - i)]

\* placeOrdersInWaves(side, ordersData), up to the sending of the first wave
SplitWaves(n, cap) ==
    /\ waveCall = NoWaveCall
    /\ waveCall' = [ordersData |-> OrdersData(n), maxPerWave |-> cap,
                    waves |-> SplitIntoWaves(OrdersData(n), cap)]
    /\ UNCHANGED << connVars, persistVars, omVersion, configMaxOrders, oidLimit, running, buyCurrentOrders, sellCurrentOrders,
                    buyFilledOrders, lastPrice, stats, isHandlingInsufficientBalance,
                    recovery, orderCancelledListeners, isPlacingOrders, waveProcs, privateConnected,
                    isAuthenticated, messageQueue, nextOid, wirePlace, wireCancel,
                    venueOpen, lastOps >>

NextWaves == \E n \in 1..MaxWaveInput, cap \in 1..MaxWaveCap : SplitWaves(n, cap)

SpecWaves == Init /\ [][NextWaves]_vars


-----------------------------------------------------------------------------
(* Vocabulary of the properties *)

ActiveStatuses == {"pending", "live"}

ActiveBuys == { id \in DOMAIN buyCurrentOrders : buyCurrentOrders[id].status \in ActiveStatuses }

ActiveSells == { p \in DOMAIN sellCurrentOrders : sellCurrentOrders[p].status \in ActiveStatuses }

\* the State Store holds a record for the order id
Tracked(clientOid) ==
    \/ clientOid \in DOMAIN buyCurrentOrders
    \/ SellPricesOf(sellCurrentOrders, clientOid) # {}

\* the status the State Store holds for a tracked order id
TrackedStatus(clientOid) ==
    IF clientOid \in DOMAIN buyCurrentOrders
    THEN buyCurrentOrders[clientOid].status
    ELSE sellCurrentOrders[CHOOSE p \in SellPricesOf(sellCurrentOrders, clientOid) : TRUE].status

\* this step is the handling of the fill notification of order o, of the given shape
FillDelivered(o, shape) == Ready /\ VenueFill(o, shape)

\* this step is the handling of the status cancelled of a resting order
CancelDelivered(clientOid) ==
    /\ Ready
    /\ \E o \in venueOpen : o.clientOid = clientOid
    /\ VenueCancel(clientOid)

StoreUnchanged == UNCHANGED << buyCurrentOrders, sellCurrentOrders, buyFilledOrders >>

NoCommandIssued == wirePlace' \subseteq wirePlace /\ messageQueue' = messageQueue

\* the prices of the ladders of the observed market prices, one level more on each side
CandidatePrices ==
    { basePrice(p) - i * priceStep : p \in PriceSamples, i \in (-1)..maxOrders }

\* this step handles the cancel confirmation the insufficient-balance recovery waits for
RetryStep == recovery # NoRecovery /\ CancelDelivered(recovery.clientOid)

\* the buy orders of the store once the order the recovery cancelled is removed
BuysAfterRecoveryCancel == removeBuyOrder(buyCurrentOrders, recovery.clientOid)

\* the retry of the recovery finds its price occupied
RetryPriceOccupied ==
    ~ canPlaceOrder(BuysAfterRecoveryCancel, sellCurrentOrders, buyFilledOrders,
                    recovery.price, priceStep)

\* this step is the handling of the rejection 43012 of the placement cmd
InsufficientBalanceDelivered(cmd) == Ready /\ VenueInsufficientBalance(cmd)

\* the live buy orders priced strictly below a price
LiveBuysBelow(price) ==
    { id \in DOMAIN buyCurrentOrders :
        buyCurrentOrders[id].status = "live" /\ buyCurrentOrders[id].price < price }

\* the sizes of the waves of the last wave split
WaveSizes == [w \in DOMAIN waveCall.waves |-> Len(waveCall.waves[w])]

\* the cap of the last wave split: the configured wave size, 49 at most
WaveCap == Min(waveCall.maxPerWave, BitGetMaxPerWave)

\* the waves of the last wave split, put end to end
RECURSIVE Flatten(_, _)
Flatten(waves, w) ==
    IF w > Len(waves) THEN << >>
    ELSE [i \in 1..Len(waves[w]) |-> waves[w][i]] \o Flatten(waves, w + 1)

-----------------------------------------------------------------------------
(* Properties *)

\* C1: in every reachable state of the State Store, no two active (pending or
\* live) buy orders have the same price.
C1_NoTwoActiveBuysAtOnePrice ==
    \A a, b \in ActiveBuys :
        buyCurrentOrders[a].price = buyCurrentOrders[b].price => a = b

\* C1, witness: two active buy orders on two levels of the ladder, one live and
\* one pending, after a third order had been placed (a re-placement).
C1_Witness ==
    /\ nextOid = 4
    /\ \E a, b \in ActiveBuys :
          /\ buyCurrentOrders[a].status = "live"
          /\ buyCurrentOrders[b].status = "pending"
          /\ buyCurrentOrders[a].price # buyCurrentOrders[b].price

\* C2: in every reachable state, no active buy order and active sell order of
\* the State Store occupy the same price.
C2_NoBuyAndSellAtOnePrice ==
    \A id \in ActiveBuys : buyCurrentOrders[id].price \notin ActiveSells

\* C3: the venue never holds two open buy orders of the system at one price.
C3_NoTwoOpenBuysAtOnePrice ==
    \A a, b \in venueOpen :
        (a.side = "buy" /\ b.side = "buy" /\ a.price = b.price) => a = b

\* C4: every order open at the venue is tracked in the State Store.
C4_OpenOrdersAreTracked ==
    \A o \in venueOpen : Tracked(o.clientOid)

\* C5: a tracked order becomes filled only from the status live (the status
\* changes follow pending -> live -> filled).
C5_FilledOnlyFromLive ==
    [][ \A o \in venueOpen, shape \in FillShapes :
            (FillDelivered(o, shape) /\ Tracked(o.clientOid))
                => TrackedStatus(o.clientOid) = "live" ]_vars

\* C6: a terminal status (filled or cancelled) delivered for an order id the
\* State Store does not hold changes nothing in the store and issues no command.
C6_TerminalStatusOfAbsentOrderIsNoOp ==
    [][ /\ \A o \in venueOpen, shape \in FillShapes :
              (FillDelivered(o, shape) /\ ~ Tracked(o.clientOid))
                  => (StoreUnchanged /\ NoCommandIssued)
        /\ \A o \in venueOpen :
              (CancelDelivered(o.clientOid) /\ ~ Tracked(o.clientOid))
                  => (StoreUnchanged /\ NoCommandIssued) ]_vars

\* C7: the fill of a buy order at price P for the filled size s issues exactly
\* one placement command: a sell at P + priceStep for the size s.
C7_BuyFillPlacesOneSellOfTheFilledSize ==
    [][ \A o \in venueOpen, shape \in {"ok", "newSize"} :
            (o.side = "buy" /\ FillDelivered(o, shape))
                => \E cmd \in wirePlace' :
                      /\ wirePlace' \ wirePlace = {cmd}
                      /\ cmd.side = "sell"
                      /\ cmd.price = o.price + priceStep
                      /\ cmd.size = FilledSize(FillEvent(o, shape)) ]_vars

\* C8: the fill of a buy at P creates the record keyed P of buyFilledOrders; a
\* record leaves buyFilledOrders only in the step that handles the fill of a
\* sell at its key + priceStep, and that step removes this record and no other.
C8_FilledRecordLivesUntilSellFill ==
    [][ /\ \A o \in venueOpen, shape \in FillShapes :
              (o.side = "buy" /\ FillDelivered(o, shape))
                  => FillEvent(o, shape).price \in DOMAIN buyFilledOrders'
        /\ \A o \in venueOpen, shape \in FillShapes :
              (o.side = "sell" /\ FillDelivered(o, shape))
                  => DOMAIN buyFilledOrders' =
                        DOMAIN buyFilledOrders \ {JsSub(FillEvent(o, shape).price, priceStep)}
        /\ \A p \in DOMAIN buyFilledOrders :
              p \notin DOMAIN buyFilledOrders'
                  => \E o \in venueOpen, shape \in FillShapes :
                        /\ o.side = "sell"
                        /\ FillDelivered(o, shape)
                        /\ p = JsSub(FillEvent(o, shape).price, priceStep) ]_vars

\* C8, witness: a buy was filled, its sell was filled, and the record the buy
\* fill created is gone.
C8_Witness ==
    /\ stats.buyOrdersFilled = 1
    /\ stats.sellOrdersFilled = 1
    /\ buyFilledOrders = EmptyMap

\* C9: a fill notification whose price or size is missing leaves the State
\* Store and the counters unchanged and issues no placement command.
C9_MalformedFillChangesNothing ==
    [][ \A o \in venueOpen, shape \in {"noPrice", "noSize"} :
            FillDelivered(o, shape)
                => (StoreUnchanged /\ UNCHANGED stats /\ wirePlace' = wirePlace) ]_vars

\* C10: within a step, every placement command written to the transport comes
\* after the write of its pending record to the State Store.
C10_RecordStoredBeforeCommandSent ==
    \A i \in DOMAIN lastOps :
        lastOps[i].op = "send"
            => \E j \in 1..(i - 1) :
                  lastOps[j].op = "store" /\ lastOps[j].clientOid = lastOps[i].clientOid

\* C11: placeBuyOrder(price) called where canPlaceOrder(price, step) is false
\* returns null and changes nothing: not the store, not the wire, not the
\* counter ordersPlaced.  Checked for every price of the ladders in every
\* reachable state, and on the step in which the recovery retries at an occupied
\* price.
C11_RefusedPlaceBuyHasNoEffect ==
    [][ /\ \A price \in CandidatePrices :
              ~ canPlaceOrder(buyCurrentOrders, sellCurrentOrders, buyFilledOrders,
                              price, priceStep)
                  => /\ placeBuyOrder(Cur, price) = Cur
                     /\ placeBuyOrderReturn(Cur, price) = NoOid
        /\ (RetryStep /\ RetryPriceOccupied)
              => /\ buyCurrentOrders' = BuysAfterRecoveryCancel
                 /\ UNCHANGED << sellCurrentOrders, buyFilledOrders, stats, nextOid >>
                 /\ wirePlace' = wirePlace ]_vars

\* C11, witness: the recovery waits for the cancel confirmation of an open
\* order whose cancel command is on the wire, and the price it will retry is
\* occupied.
C11_Witness ==
    /\ recovery # NoRecovery
    /\ Ready
    /\ recovery.clientOid \in wireCancel
    /\ \E o \in venueOpen : o.clientOid = recovery.clientOid
    /\ RetryPriceOccupied

\* C12: canPlaceOrder(price, step) is false exactly when an active buy order is
\* at price, or an active sell order is at price + step, or buyFilledOrders has
\* the key price.
C12_CanPlaceIsTheThreeOccupancyTests ==
    \A price \in CandidatePrices :
        canPlaceOrder(buyCurrentOrders, sellCurrentOrders, buyFilledOrders, price, priceStep)
            <=> ~ \/ \E id \in ActiveBuys : buyCurrentOrders[id].price = price
                  \/ (price + priceStep) \in ActiveSells
                  \/ price \in DOMAIN buyFilledOrders

\* C12, witness: a price refused by the inventory rule alone (no buy order at
\* the price, no sell order one step above), next to a price that is free.
C12_Witness ==
    /\ \E price \in CandidatePrices :
          /\ price \in DOMAIN buyFilledOrders
          /\ (price + priceStep) \notin DOMAIN sellCurrentOrders
          /\ ~ \E id \in DOMAIN buyCurrentOrders : buyCurrentOrders[id].price = price
    /\ \E price \in CandidatePrices :
          canPlaceOrder(buyCurrentOrders, sellCurrentOrders, buyFilledOrders, price, priceStep)

\* the active buy orders are exactly the orders of the ladder, one a level
LadderHeld ==
    /\ ~ Falsy(lastPrice)
    /\ { buyCurrentOrders[id].price : id \in ActiveBuys } = LadderPrices(lastPrice)
    /\ Cardinality(ActiveBuys) = maxOrders

\* the run has used the clientOids the model gives it: a wave can no longer be placed
IdsExhausted == nextOid + waveSize > oidLimit + 1

C14_EnforceLimitCancelsTheCountExcess ==
    [][ (Ready /\ (Start \/ Tick))
            => wireCancel' = wireCancel \cup
                   Range(getOrdersToCancel(cleanPendingBuys(buyCurrentOrders), maxOrders)) ]_vars

\* C15: getOrdersToCancel(maxCount) returns the empty list when the store holds
\* at most maxCount buy orders, and otherwise the ids of exactly the
\* count - maxCount lowest-priced ones, each once.
C15_SelectExcessIsTheLowestPriced ==
    \A max \in 0..MaxOids :
        LET count == Cardinality(DOMAIN buyCurrentOrders)
            r == getOrdersToCancel(buyCurrentOrders, max)
        IN  IF count <= max THEN r = << >>
            ELSE /\ Len(r) = count - max
                 /\ Cardinality(Range(r)) = Len(r)
                 /\ Range(r) \subseteq DOMAIN buyCurrentOrders
                 /\ \A a \in Range(r), b \in (DOMAIN buyCurrentOrders) \ Range(r) :
                        buyCurrentOrders[a].price <= buyCurrentOrders[b].price

\* C15, witness: one buy order more than maxOrders, at distinct prices, and the
\* selection for maxOrders is the single lowest-priced one.
C15_Witness ==
    /\ Cardinality(DOMAIN buyCurrentOrders) = maxOrders + 1
    /\ \A a, b \in DOMAIN buyCurrentOrders :
          buyCurrentOrders[a].price = buyCurrentOrders[b].price => a = b
    /\ Len(getOrdersToCancel(buyCurrentOrders, maxOrders)) = 1
    /\ Len(getOrdersToCancel(buyCurrentOrders, 1)) = maxOrders

\* C16: when the cancel confirmation the recovery waits for arrives before its
\* 2 s timeout, the step issues a buy placement command at the failed price;
\* when the timeout fires first, no placement command is issued.
C16_ConfirmedCancelIsFollowedByTheRetry ==
    [][ /\ RetryStep
              => \E cmd \in wirePlace' \ wirePlace :
                    cmd.side = "buy" /\ cmd.price = recovery.price
        /\ RecoveryTimeout => wirePlace' = wirePlace ]_vars

\* C17: a run of the recovery asks for the cancel of at most one order: the
\* live buy order farthest from the failed price among the live buys priced
\* strictly below it; it asks for no cancel when there is none.
C17_RecoveryCancelsTheFarthestLiveBuyBelow ==
    [][ \A cmd \in wirePlace :
            (InsufficientBalanceDelivered(cmd) /\ ~ isHandlingInsufficientBalance)
                => /\ wireCancel' = wireCancel
                   /\ IF LiveBuysBelow(cmd.price) = {}
                      THEN messageQueue' = messageQueue /\ recovery' = NoRecovery
                      ELSE \E id \in LiveBuysBelow(cmd.price) :
                              /\ \A j \in LiveBuysBelow(cmd.price) :
                                    Abs(buyCurrentOrders[id].price - cmd.price)
                                        >= Abs(buyCurrentOrders[j].price - cmd.price)
                              /\ messageQueue' = Append(messageQueue, id)
                              /\ recovery' = [clientOid |-> id, price |-> cmd.price] ]_vars

\* C17, witness: a recovery is waiting for the cancel of the lowest of two live
\* buy orders below the failed price, next to a pending buy order.
C17_Witness ==
    /\ recovery # NoRecovery
    /\ recovery.clientOid \in LiveBuysBelow(recovery.price)
    /\ Cardinality(LiveBuysBelow(recovery.price)) = 2
    /\ \A j \in LiveBuysBelow(recovery.price) :
          buyCurrentOrders[recovery.clientOid].price <= buyCurrentOrders[j].price
    /\ \E id \in DOMAIN buyCurrentOrders : buyCurrentOrders[id].status = "pending"

\* C18: an insufficient-balance rejection handled while a recovery is in
\* progress asks for no cancel, places nothing, changes no record of the store
\* and leaves the recovery in progress as it is; a recovery starts only when
\* none is in progress.
C18_SecondTriggerIsIgnored ==
    [][ /\ \A cmd \in wirePlace :
              (InsufficientBalanceDelivered(cmd) /\ isHandlingInsufficientBalance)
                  => /\ UNCHANGED << recovery, isHandlingInsufficientBalance,
                                     messageQueue, wireCancel, nextOid >>
                     /\ wirePlace' = wirePlace \ {cmd}
                     /\ StoreUnchanged
        /\ (recovery' # recovery /\ recovery' # NoRecovery)
              => (recovery = NoRecovery /\ ~ isHandlingInsufficientBalance) ]_vars

\* C18, witness: a recovery is in progress on a ready connection, a live buy
\* order below the price of a placement command on the wire could be selected,
\* and the venue may reject that command.
C18_Witness ==
    /\ isHandlingInsufficientBalance
    /\ recovery # NoRecovery
    /\ Ready
    /\ \E cmd \in wirePlace :
          NextOnWire(cmd) /\ LiveBuysBelow(cmd.price) \ {recovery.clientOid} # {}

\* C19: for a list longer than the cap, the last wave of the split holds at
\* least 25% of the cap whenever the list can be spread over the same number
\* of waves with every wave at 25% of the cap or more (100 orders under a cap
\* of 49: 34/33/33 instead of 49/49/2).
C19_LastWaveIsNotNearEmpty ==
    LET n == Len(waveCall.ordersData)
        k == Len(waveCall.waves)
    IN  (waveCall # NoWaveCall /\ n > WaveCap /\ 4 * (n \div k) >= WaveCap)
            => 4 * WaveSizes[k] >= WaveCap

\* C20: the wave split is a partition of the list in order: the waves put end
\* to end are the list, no wave is empty, no wave holds more than the cap nor
\* more than 49, and a list no longer than the cap gives a single wave.  (The
\* slicing of the first definition is held to it for wave sizes up to 49, the
\* range its configuration documents.)
C20_WaveSplitIsAnOrderedPartition ==
    (waveCall # NoWaveCall /\ (omVersion = 2 \/ waveCall.maxPerWave <= BitGetMaxPerWave))
        => /\ Flatten(waveCall.waves, 1) = waveCall.ordersData
           /\ \A w \in DOMAIN WaveSizes :
                 /\ WaveSizes[w] >= 1
                 /\ WaveSizes[w] <= waveCall.maxPerWave
                 /\ WaveSizes[w] <= BitGetMaxPerWave
           /\ Len(waveCall.ordersData) <= WaveCap => Len(waveCall.waves) = 1

\* C20, witness: generateOptimizedWaves has split the longest list under a wave
\* size above 49 into three waves.
C20_Witness ==
    /\ omVersion = 2
    /\ waveCall.maxPerWave = MaxWaveCap
    /\ waveCall.maxPerWave > BitGetMaxPerWave
    /\ Len(waveCall.ordersData) = MaxWaveInput
    /\ Len(waveCall.waves) >= 3

\* this step starts a call of placeOrdersInWaves('buy', gap) and sends its first wave
CallStarted == Len(waveProcs') = Len(waveProcs) + 1 /\ (Start \/ Tick)

\* this step is the inter-wave timer of call i sending the next wave
WaveSent(i) ==
    /\ waveProcs[i].sent < Len(waveProcs[i].waves)
    /\ Len(waveProcs') = Len(waveProcs)
    /\ WaveTimer(i)

\* this step is the inter-wave timer of call i resolving the call
WaveResolved(i) == waveProcs[i].sent = Len(waveProcs[i].waves) /\ WaveTimer(i)

\* the prices of the placement commands written to the socket in this step
PricesSent == { cmd.price : cmd \in wirePlace' \ wirePlace }

\* the number of placement commands written to the socket in this step
CountSent == Cardinality(wirePlace' \ wirePlace)

\* C21: a call of placeOrdersInWaves sends its first wave in the step that
\* starts it and wave k + 1 at the k-th firing of the inter-wave timer, whether
\* or not the earlier waves were acknowledged; its running total grows by the
\* number of commands each wave wrote; the firing after the last wave resolves
\* the call with that total, once, and sends nothing.
C21_WavesAreSentInOrderAndTheCallResolvesOnce ==
    [][ /\ CallStarted
              => LET call == waveProcs'[Len(waveProcs')]
                 IN  /\ call.sent = 1
                     /\ PricesSent \subseteq Range(call.waves[1])
                     /\ call.placed = CountSent
        /\ \A i \in DOMAIN waveProcs :
              WaveSent(i)
                  => /\ PricesSent \subseteq Range(waveProcs[i].waves[waveProcs[i].sent + 1])
                     /\ waveProcs' = [waveProcs EXCEPT ![i].sent = @ + 1,
                                                       ![i].placed = @ + CountSent]
        /\ \A i \in DOMAIN waveProcs :
              WaveResolved(i)
                  => /\ lastOps' = << ResolveOp("buy", waveProcs[i].placed) >>
                     /\ waveProcs' = RemoveAt(waveProcs, i)
                     /\ wirePlace' = wirePlace
        /\ (\E k \in DOMAIN lastOps' : lastOps'[k].op = "resolve")
              => /\ Len(lastOps') = 1
                 /\ \E i \in DOMAIN waveProcs : WaveResolved(i) ]_vars

\* C21, witness: a call of two waves has resolved with 2, one order a wave, while
\* a placement command of the call is still on the wire, unacknowledged.
C21_Witness ==
    /\ lastOps = << ResolveOp("buy", 2) >>
    /\ waveProcs = << >>
    /\ \E cmd \in wirePlace :
          /\ cmd.clientOid \in DOMAIN buyCurrentOrders
          /\ buyCurrentOrders[cmd.clientOid].status = "pending"

\* this step is the handling of the rejection 429 of the placement cmd
TooManyRequestsDelivered(cmd) == Ready /\ VenueTooManyRequests(cmd)

\* every record of the State Store but the one of clientOid is in the next state as it is
OtherRecordsUnchanged(clientOid) ==
    /\ DOMAIN buyCurrentOrders' \subseteq DOMAIN buyCurrentOrders
    /\ \A id \in (DOMAIN buyCurrentOrders) \ {clientOid} :
          id \in DOMAIN buyCurrentOrders' /\ buyCurrentOrders'[id] = buyCurrentOrders[id]
    /\ DOMAIN sellCurrentOrders' \subseteq DOMAIN sellCurrentOrders
    /\ \A p \in DOMAIN sellCurrentOrders :
          sellCurrentOrders[p].clientOid # clientOid
              => p \in DOMAIN sellCurrentOrders' /\ sellCurrentOrders'[p] = sellCurrentOrders[p]
    /\ UNCHANGED buyFilledOrders

\* C22: the step that handles the rejection 429 of a placement leaves no record
\* of that order in the State Store, on the buy side or the sell side, and
\* every other record as it was.
C22_RateLimitedPlacementLosesItsRecord ==
    [][ \A cmd \in wirePlace :
            TooManyRequestsDelivered(cmd)
                => /\ ~ Tracked(cmd.clientOid)'
                   /\ OtherRecordsUnchanged(cmd.clientOid) ]_vars

\* C22, witness: on a ready connection the next placement on the wire is a sell
\* whose pending record is in the store, next to a filled-buy record and a buy
\* order; the venue may reject it with 429.
C22_Witness ==
    /\ Ready
    /\ \E cmd \in wirePlace :
          /\ NextOnWire(cmd)
          /\ cmd.side = "sell"
          /\ Tracked(cmd.clientOid)
          /\ TrackedStatus(cmd.clientOid) = "pending"
    /\ buyFilledOrders # EmptyMap
    /\ buyCurrentOrders # EmptyMap

\* this step is the handling of the rejection 43001 of the cancel of clientOid
UnknownOrderDelivered(clientOid) ==
    /\ Ready
    /\ ~ \E o \in venueOpen : o.clientOid = clientOid
    /\ VenueCancel(clientOid)

\* C23: the step that handles the rejection 43001 (order unknown or already
\* cancelled) of a cancel leaves no record of that order in the State Store,
\* for a buy order and for a sell order.
C23_UnknownOrderOnCancelLosesItsRecord ==
    [][ \A clientOid \in wireCancel :
            UnknownOrderDelivered(clientOid) => ~ Tracked(clientOid)' ]_vars

\* this step is a reconciliation pass: it begins with cleanPendingOrders(1500)
ReconciliationPass == Start \/ Tick

\* the buy orders pending for more than maxPendingTimeMs
ExpiredBuys ==
    { id \in DOMAIN buyCurrentOrders :
        buyCurrentOrders[id].status = "pending" /\ buyCurrentOrders[id].aged }

\* the sell orders pending for more than maxPendingTimeMs
ExpiredSells ==
    { p \in DOMAIN sellCurrentOrders :
        sellCurrentOrders[p].status = "pending" /\ sellCurrentOrders[p].aged }

\* C24: the reconciliation pass, which calls cleanPendingOrders(1500), removes
\* from the store exactly the buy and sell orders that are pending and older
\* than the limit; the value returned is the number of records removed; and no
\* order that rests at the venue, whose status live was reported on the ready
\* connection, loses its record, on either side.
C24_ExpiryRemovesOnlyUnacknowledgedOrders ==
    [][ ReconciliationPass
            => /\ (DOMAIN buyCurrentOrders) \ DOMAIN buyCurrentOrders' = ExpiredBuys
               /\ (DOMAIN sellCurrentOrders) \ DOMAIN sellCurrentOrders' = ExpiredSells
               /\ cleanPendingOrdersReturn(buyCurrentOrders, sellCurrentOrders)
                     = Cardinality(ExpiredBuys) + Cardinality(ExpiredSells)
               /\ \A o \in venueOpen : Tracked(o.clientOid) => Tracked(o.clientOid)' ]_vars

\* C25: recording a pending buy order under a clientOid the store already
\* holds leaves the record held under that clientOid as it is (the new order is
\* refused); no record is overwritten by a new placement.
C25_DuplicateIdLeavesTheRecord ==
    [][ \A n \in 1..MaxStoreIds, price \in StorePrices :
            (Oid("buy", n) \in DOMAIN buyCurrentOrders /\ StoreAddBuyOrder(Oid("buy", n), price))
                => UNCHANGED buyCurrentOrders ]_vars

\* the file holds text that is not a snapshot: it does not parse, or a field
\* that should hold the entries of a map holds something else
Corrupt(file) ==
    \/ file.kind = "unparsable"
    \/ /\ file.kind = "json"
       /\ \/ ~ file.buyCurrentOrders.iterable
          \/ ~ file.sellCurrentOrders.iterable
          \/ ~ file.buyFilledOrders.iterable

\* the store of a cold start: the three maps are empty and there is no last price
ColdStart ==
    /\ buyCurrentOrders = EmptyMap
    /\ sellCurrentOrders = EmptyMap
    /\ buyFilledOrders = EmptyMap
    /\ lastPrice = NoPrice

\* C26: initPersistence() on a cache file that is missing or corrupt goes on
\* (no error escapes loadFromFile) and leaves the store of a cold start: no map
\* holds entries of the file, whatever part of the file could be read.
C26_MissingOrCorruptFileGivesAColdStart ==
    [][ (InitPersistence /\ (cacheFile.kind = "missing" \/ Corrupt(cacheFile)))
            => (procPhase' = "running" /\ ColdStart') ]_vars

\* C27: the content of the cache file changes only in the step that renames
\* the temporary file onto it, the temporary file holding a whole snapshot; no
\* step, the final save of stopPersistence() included, writes the cache file
\* itself or leaves a part of a snapshot in it.
C27_CacheFileChangesOnlyByRename ==
    [][ cacheFile' # cacheFile
            => /\ RenameDone(TRUE)
               /\ tempFile.kind = "json"
               /\ cacheFile' = tempFile ]_vars

\* an asynchronous save is outstanding: its write or its rename has not completed
SaveOutstanding == fsOp # NoFsOp

\* this step is a request to save: the periodic timer or the final save
SaveRequested == SaveToFile \/ \E ok \in BOOLEAN : StopPersistence(ok)

\* this step is the end of the outstanding save: the write failed, or the
\* rename succeeded or failed
SaveEnded == WriteFileDone(FALSE) \/ \E ok \in BOOLEAN : RenameDone(ok)

\* C28: the flag isSaving is set exactly while a save is outstanding; a save
\* requested while one is outstanding, by the periodic timer or by
\* stopPersistence(), writes no file and starts no operation; the step that
\* ends the outstanding save, with success or with an error, clears the flag.
C28_OneSnapshotWriteAtATime ==
    [][ /\ isSaving <=> SaveOutstanding
        /\ (SaveOutstanding /\ SaveRequested)
              => UNCHANGED << cacheFile, tempFile, fsOp >>
        /\ SaveEnded => (~ isSaving' /\ ~ SaveOutstanding') ]_vars

\* call i of placeOrdersInWaves has sent its last wave
LastWaveSent(i) == waveProcs[i].sent = Len(waveProcs[i].waves)

\* C29: a reconciliation pass that finds the flag isPlacingOrders set starts no
\* call of placeOrdersInWaves, records no order and writes no placement; and a
\* call of placeOrdersInWaves starts only when every earlier call has sent its
\* last wave.
C29_OneWavePlacementAtATime ==
    [][ /\ (isPlacingOrders /\ ReconciliationPass)
              => /\ waveProcs' = waveProcs
                 /\ wirePlace' = wirePlace
                 /\ DOMAIN buyCurrentOrders' \subseteq DOMAIN buyCurrentOrders
        /\ CallStarted => \A i \in DOMAIN waveProcs : LastWaveSent(i) ]_vars

\* a placementTimeout of updateGridOrders is armed: less than 2000 ms have passed
\* since the call that armed it, and that call has not resolved
ReleaseArmed == \E i \in DOMAIN waveProcs : waveProcs[i].timeout

\* a call of placeOrdersInWaves is unresolved after its placementTimeout has fired
ReleasedBeforeResolve == \E i \in DOMAIN waveProcs : ~ waveProcs[i].timeout

\* C30: while the flag isPlacingOrders is set a placementTimeout is armed (the
\* flag has been set for less than 2000 ms), and a set flag is always cleared
\* again (in every run that stays within its clientOids).
C30_PlacementFlagIsReleased ==
    /\ [](isPlacingOrders => ReleaseArmed)
    /\ ([] ~ IdsExhausted) => (isPlacingOrders ~> ~ isPlacingOrders)

\* C30, witness: the forced release has cleared the flag of a call that has not
\* resolved yet, and clientOids are left.
C30_Witness ==
    /\ ~ isPlacingOrders
    /\ ReleasedBeforeResolve
    /\ ~ IdsExhausted

\* no run of handleInsufficientBalance is between its first await and its finally
RecoveryEnded == ~ isHandlingInsufficientBalance /\ recovery = NoRecovery

\* C31: when no insufficient-balance recovery is in progress, its in-flight flag
\* is clear, no cancelPromise is pending and no onOrderCancelled listener is
\* left registered on wsManager.
C31_EndedRecoveryHoldsNothing ==
    /\ isHandlingInsufficientBalance <=> (recovery # NoRecovery)
    /\ RecoveryEnded => orderCancelledListeners = {}

\* C32: in every reachable state the State Store holds at most config.maxOrders
\* active (pending or live) buy orders.
C32_ActiveBuysWithinMaxOrders == Cardinality(ActiveBuys) <= configMaxOrders

-----------------------------------------------------------------------------
(* The reconciliation loop started and stopped: the runs of the loop under a *)
(* fixed market price, with GridStrategy.stop() called at any moment and     *)
(* start() called again after it.                                            *)

\* GridStrategy.stop(): the flag is cleared and the tick timer is cancelled; the
\* timers of placeOrdersInWaves and of updateGridOrders are not touched
Stop ==
    /\ running
    /\ running' = FALSE
    /\ Commit(Cur)
    /\ UNCHANGED << connVars, persistVars, omVersion, configMaxOrders, oidLimit, waveCall, lastPrice, isPlacingOrders, waveProcs, privateConnected,
                    isAuthenticated, venueOpen >>

NextStop ==
    \/ NextFixedPrice
    \/ Stop

SpecStop == InitFixedPrice /\ [][NextStop]_vars

\* the loop is stopped before and after the step
StaysStopped == ~ running /\ ~ running'

\* C33: the loop is stopped or running; a step that begins and ends with the
\* loop stopped is no reconciliation pass, writes no placement and no cancel
\* command and records no order.
C33_StoppedLoopIssuesNothing ==
    [][ /\ running' \in BOOLEAN
        /\ StaysStopped
             => /\ wirePlace' \subseteq wirePlace
                /\ wireCancel' \subseteq wireCancel
                /\ messageQueue' = messageQueue
                /\ DOMAIN buyCurrentOrders' \subseteq DOMAIN buyCurrentOrders
                /\ ~ ReconciliationPass ]_vars

\* the commands the calls of the step have handed to wsManager.placeOrder,
\* cancelOrder, placeBulkOrders and cancelBulkOrders and that were accepted
CommandsOfStep == { k \in DOMAIN lastOps : lastOps[k].op \in {"send", "cancel", "queue"} }

\* C38: every command a placement or cancel call has accepted was written to
\* the trading connection by the call itself; none was put on the outbound queue.
C38_CommandsBypassTheQueue ==
    \A k \in CommandsOfStep :
        /\ lastOps[k].op # "queue"
        /\ lastOps[k].clientOid \notin Range(messageQueue)

-----------------------------------------------------------------------------
(* The outbound queue of the trading connection: cancels are queued by       *)
(* cancelOrder, the ticker of startMessageProcessing drains the queue, the   *)
(* trading connection opens and closes, and privateWs.send may throw.        *)

\* what error.code of a thrown send may be; "none" is an error without a code
SendErrorCodes == {"EPIPE", "ECONNRESET", "none"}

SendFailedOp(clientOid) ==
    [op |-> "sendFailed", clientOid |-> clientOid, side |-> clientOid.side,
     price |-> NoPrice, size |-> 0]

\* the mutant of requeueAfterError: the message is never put back
requeueAfterError_never(code) == FALSE

\* the catch of processMessageQueue: error.code !== 'EPIPE' && error.code !== 'ECONNRESET'
requeueAfterError(code) == code # "EPIPE" /\ code # "ECONNRESET"

\* processMessageQueue() when privateWs.send throws an error with the code:
\* shift(), catch, unshift(message) for a transient error
ProcessMessageQueueSendThrows(code) ==
    /\ messageQueue # << >>
    /\ privateConnected
    /\ LET message == Head(messageQueue)
           shifted == Tail(messageQueue)
       IN  Commit([Cur EXCEPT !.mq = IF requeueAfterError(code)
                                     THEN << message >> \o shifted
                                     ELSE shifted,
                              !.ops = << SendFailedOp(message) >>])
    /\ UNCHANGED << connVars, persistVars, omVersion, configMaxOrders, oidLimit, waveCall, running, lastPrice, isPlacingOrders, waveProcs, privateConnected,
                    isAuthenticated, venueOpen >>

NextQueue ==
    \/ \E price \in PriceSamples : FirstPrice(price)
    \/ PrivateOpen
    \/ LoginOk
    \/ PrivateClose
    \/ Start
    \/ \E i \in DOMAIN waveProcs : WaveTimer(i)
    \/ \E i \in DOMAIN waveProcs : PlacementTimeout(i)
    \/ \E cmd \in wirePlace : VenueAccept(cmd)
    \/ \E clientOid \in TrackedOids : CancelOrder(clientOid)
    \/ ProcessMessageQueue
    \/ \E code \in SendErrorCodes : ProcessMessageQueueSendThrows(code)
    \/ \E clientOid \in wireCancel : VenueCancel(clientOid)

SpecQueue == Init /\ [][NextQueue]_vars

\* the step takes the message at the head off the queue
HeadLeaves == messageQueue # << >> /\ messageQueue' = Tail(messageQueue)

\* the step writes the queued message to the trading connection
QueuedMessageWritten(clientOid) ==
    /\ lastOps' = << CancelOp(clientOid) >>
    /\ clientOid \in wireCancel'

\* the step is a send of the head that failed with a transient error
TransientSendFailure ==
    \E code \in SendErrorCodes \ {"EPIPE", "ECONNRESET"} :
        ProcessMessageQueueSendThrows(code)

\* C39: the outbound queue changes only by a message joining its tail or its
\* head leaving it; the head leaves only in a step of the ticker while the
\* trading connection is connected, which writes that one message and no other,
\* or whose send failed with 'EPIPE' or 'ECONNRESET'; while the connection is
\* down the queue loses nothing, and a send that fails with a transient error
\* leaves the queue as it was.
C39_QueueIsDrainedInOrder ==
    [][ /\ \/ messageQueue' = messageQueue
           \/ \E clientOid \in TrackedOids : messageQueue' = Append(messageQueue, clientOid)
           \/ HeadLeaves
        /\ HeadLeaves
             => /\ privateConnected
                /\ \/ /\ QueuedMessageWritten(Head(messageQueue))
                      /\ wireCancel' \subseteq wireCancel \cup {Head(messageQueue)}
                   \/ /\ lastOps' = << SendFailedOp(Head(messageQueue)) >>
                      /\ wireCancel' = wireCancel
        /\ (\E k \in DOMAIN lastOps' : lastOps'[k].op = "cancel" /\ ProcessMessageQueue)
             => HeadLeaves
        /\ TransientSendFailure => messageQueue' = messageQueue /\ wireCancel' = wireCancel
      ]_vars

\* C39, witness: with two messages on the queue the send of the first has failed
\* with a transient error, and the first is still at the head.
C39_Witness ==
    /\ Len(messageQueue) = 2
    /\ lastOps = << SendFailedOp(Head(messageQueue)) >>
    /\ privateConnected

-----------------------------------------------------------------------------
(* WebSocketManager: the two connections, their sockets and their timers.    *)
(*                                                                           *)
(* A socket is created by connectPublic / connectPrivate and is connecting,  *)
(* open, closing (close() or terminate() was called on it and its 'close'    *)
(* event is due) or closed.  The handlers of a socket stay attached to it    *)
(* whatever publicWs / privateWs refers to later.  A failed connection       *)
(* attempt is a connecting socket that closes ('error', then 'close').       *)
(*                                                                           *)
(* Abstractions: the timers fire in any order; a send on a socket that is    *)
(* not open writes nothing and raises nothing; no message arrives on a       *)
(* closing socket; the intervals and timers no field refers to any more are  *)
(* kept as one bit a channel.                                                *)

maxReconnectAttempts == 5

RECURSIVE Pow2(_)
Pow2(k) == IF k = 0 THEN 1 ELSE 2 * Pow2(k - 1)

\* delay = Math.min(1000 * Math.pow(2, this.publicReconnectAttempts), 30000)
reconnectDelay(attempts) == Min(1000 * Pow2(attempts), 30000)

\* the delay of the timer that resets the attempts
resetDelay == 60000

ReconnectTimer(delay, reset) == [delay |-> delay, reset |-> reset]

Connected(ch) == IF ch = "private" THEN privateConnected ELSE publicConnected

\* the fields of WebSocketManager of one channel, threaded through its handlers
Chan(ch) ==
    [ connected |-> Connected(ch), auth |-> isAuthenticated, sockets |-> sockets[ch],
      ws |-> ws[ch], attempts |-> reconnectAttempts[ch], timers |-> reconnectTimers[ch],
      ping |-> pingInterval[ch], strayPing |-> strayPingInterval[ch],
      pongs |-> pongTimeouts[ch], sched |-> scheduledReconnect[ch],
      straySched |-> strayScheduledReconnect[ch], login |-> loginSent,
      subs |-> subscribed[ch] ]

Chans == [ch \in Channels |-> Chan(ch)]

CommitChannels(f) ==
    /\ publicConnected' = f["public"].connected
    /\ privateConnected' = f["private"].connected
    /\ isAuthenticated' = f["private"].auth
    /\ loginSent' = f["private"].login
    /\ sockets' = [ch \in Channels |-> f[ch].sockets]
    /\ ws' = [ch \in Channels |-> f[ch].ws]
    /\ reconnectAttempts' = [ch \in Channels |-> f[ch].attempts]
    /\ reconnectTimers' = [ch \in Channels |-> f[ch].timers]
    /\ pingInterval' = [ch \in Channels |-> f[ch].ping]
    /\ strayPingInterval' = [ch \in Channels |-> f[ch].strayPing]
    /\ pongTimeouts' = [ch \in Channels |-> f[ch].pongs]
    /\ scheduledReconnect' = [ch \in Channels |-> f[ch].sched]
    /\ strayScheduledReconnect' = [ch \in Channels |-> f[ch].straySched]
    /\ subscribed' = [ch \in Channels |-> f[ch].subs]

CommitChannel(ch, c) == CommitChannels([Chans EXCEPT ![ch] = c])

\* the order engine, the State Store and the files take no part
EngineIdle ==
    UNCHANGED << persistVars, socketLimit, omVersion, configMaxOrders, oidLimit, waveCall, running,
                 buyCurrentOrders, sellCurrentOrders, buyFilledOrders, lastPrice, stats,
                 isHandlingInsufficientBalance, recovery, orderCancelledListeners,
                 isPlacingOrders, waveProcs, messageQueue, nextOid, wirePlace, wireCancel,
                 venueOpen, lastOps >>

\* the socket can carry a message
IsOpen(c, s) == s # 0 /\ c.sockets[s] = "open"

\* the socket has not closed and neither close() nor terminate() was called on it
IsUp(c, s) == s # 0 /\ c.sockets[s] \in {"connecting", "open"}

\* connectPublic() / connectPrivate(): this.publicWs = new WebSocket(...)
connectChannel(c) ==
    [c EXCEPT !.sockets = Append(@, "connecting"), !.ws = Len(c.sockets) + 1]

\* the mutant of reconnect: at the maximum of attempts nothing is scheduled
reconnect_givesUp(c, scheduled) ==
    LET attempts == IF scheduled THEN 0 ELSE c.attempts
    IN  IF attempts < maxReconnectAttempts
        THEN [c EXCEPT !.attempts = attempts + 1,
                       !.timers = Append(@, ReconnectTimer(reconnectDelay(attempts + 1), FALSE))]
        ELSE [c EXCEPT !.attempts = attempts]

\* reconnectPublic(scheduled) / reconnectPrivate(scheduled)
reconnect(c, scheduled) ==
    LET attempts == IF scheduled THEN 0 ELSE c.attempts
    IN  IF attempts < maxReconnectAttempts
        THEN [c EXCEPT !.attempts = attempts + 1,
                       !.timers = Append(@, ReconnectTimer(reconnectDelay(attempts + 1), FALSE))]
        ELSE [c EXCEPT !.attempts = attempts,
                       !.timers = Append(@, ReconnectTimer(resetDelay, TRUE))]

\* authenticate(): the login is written to privateWs
authenticate(c) ==
    IF c.connected /\ IsOpen(c, c.ws) THEN [c EXCEPT !.login = @ \cup {c.ws}] ELSE c

\* subscribeToPriceUpdates(): the subscription is written to publicWs
subscribeToPriceUpdates(c) ==
    IF c.connected /\ IsOpen(c, c.ws) THEN [c EXCEPT !.subs = @ \cup {c.ws}] ELSE c

\* subscribeToOrderUpdates(): the subscription is written to privateWs
subscribeToOrderUpdates(c) ==
    IF c.connected /\ c.auth /\ IsOpen(c, c.ws) THEN [c EXCEPT !.subs = @ \cup {c.ws}] ELSE c

\* setupPublicPingPong() / setupPrivatePingPong(): the field is overwritten
setupPingPong(c) == [c EXCEPT !.strayPing = @ \/ c.ping, !.ping = TRUE]

\* schedulePublicReconnect() / schedulePrivateReconnect(): the field is overwritten
scheduleReconnect(c) ==
    [c EXCEPT !.straySched = @ \/ (c.sched = "pending"), !.sched = "pending"]

\* the 'open' handler of the socket s
onOpen(ch, c, s) ==
    LET c1 == [c EXCEPT !.sockets[s] = "open", !.connected = TRUE, !.attempts = 0]
        c2 == IF ch = "private" THEN authenticate(c1) ELSE subscribeToPriceUpdates(c1)
    IN  scheduleReconnect(setupPingPong(c2))

\* the 'message' handler of the trading socket s: event login, code 0
onLogin(c, s) ==
    subscribeToOrderUpdates([c EXCEPT !.auth = TRUE, !.login = @ \ {s}])

\* the 'error' and 'close' handlers of the socket s
onClose(ch, c, s) ==
    reconnect([c EXCEPT !.sockets[s] = "closed",
                        !.connected = FALSE,
                        !.auth = IF ch = "private" THEN FALSE ELSE @,
                        !.ping = FALSE,
                        !.sched = "null",
                        !.login = @ \ {s},
                        !.subs = @ \ {s}],
              FALSE)

\* the callback of the ping interval
onPingInterval(c) ==
    IF c.connected /\ IsOpen(c, c.ws) THEN [c EXCEPT !.pongs = @ \cup {c.ws}] ELSE c

\* pongHandler of the socket s: clearTimeout(pongTimeout)
onPong(c, s) == [c EXCEPT !.pongs = @ \ {s}]

\* the pongTimeout of a ping written to the socket s fires: this.publicWs.terminate()
onPongTimeout(c, s) ==
    LET c1 == [c EXCEPT !.pongs = @ \ {s}]
    IN  IF IsUp(c1, c1.ws) THEN [c1 EXCEPT !.sockets[c1.ws] = "closing"] ELSE c1

\* the timer of schedulePublicReconnect / schedulePrivateReconnect fires
onScheduledReconnect(c, stray) ==
    reconnect(IF stray THEN [c EXCEPT !.straySched = FALSE] ELSE [c EXCEPT !.sched = "fired"],
              TRUE)

\* the timer i of reconnectPublic / reconnectPrivate fires
onReconnectTimer(c, i) ==
    connectChannel([c EXCEPT !.timers = RemoveAt(@, i),
                             !.attempts = IF c.timers[i].reset THEN 0 ELSE @])

\* disconnect(), for one channel
disconnectChannel(c) ==
    [c EXCEPT !.sched = "null",
              !.ping = FALSE,
              !.sockets = IF IsUp(c, c.ws) THEN [@ EXCEPT ![c.ws] = "closing"] ELSE @,
              !.ws = 0,
              !.connected = FALSE,
              !.auth = FALSE]

SocketsLeft(ch) == Len(sockets[ch]) < socketLimit[ch]

\* wsManager.connect(): connectPublic() and connectPrivate()
Connect ==
    /\ wsPhase \in {"constructed", "disconnected"}
    /\ \A ch \in Channels : SocketsLeft(ch)
    /\ wsPhase' = "connected"
    /\ CommitChannels([ch \in Channels |-> connectChannel(Chan(ch))])
    /\ EngineIdle

\* wsManager.disconnect()
Disconnect ==
    /\ wsPhase = "connected"
    /\ wsPhase' = "disconnected"
    /\ CommitChannels([ch \in Channels |-> disconnectChannel(Chan(ch))])
    /\ EngineIdle

\* the socket s of the channel opens
SocketOpen(ch, s) ==
    /\ sockets[ch][s] = "connecting"
    /\ CommitChannel(ch, onOpen(ch, Chan(ch), s))
    /\ UNCHANGED wsPhase
    /\ EngineIdle

\* the venue answers the login written to the trading socket s
LoginResponse(s) ==
    /\ s \in loginSent
    /\ sockets["private"][s] = "open"
    /\ CommitChannel("private", onLogin(Chan("private"), s))
    /\ UNCHANGED wsPhase
    /\ EngineIdle

\* the socket s closes: the network or the venue drops it, the connection
\* attempt fails, or the close() or terminate() called on it completes
SocketClose(ch, s) ==
    /\ sockets[ch][s] \in {"connecting", "open", "closing"}
    /\ CommitChannel(ch, onClose(ch, Chan(ch), s))
    /\ UNCHANGED wsPhase
    /\ EngineIdle

\* a ping interval of the channel fires
PingInterval(ch) ==
    /\ pingInterval[ch] \/ strayPingInterval[ch]
    /\ IsOpen(Chan(ch), ws[ch])
    /\ Connected(ch)
    /\ ws[ch] \notin pongTimeouts[ch]
    /\ CommitChannel(ch, onPingInterval(Chan(ch)))
    /\ UNCHANGED wsPhase
    /\ EngineIdle

\* the pong of the ping written to the socket s arrives
Pong(ch, s) ==
    /\ s \in pongTimeouts[ch]
    /\ sockets[ch][s] = "open"
    /\ CommitChannel(ch, onPong(Chan(ch), s))
    /\ UNCHANGED wsPhase
    /\ EngineIdle

\* 5000 ms after the ping written to the socket s, no pong has arrived
PongTimeout(ch, s) ==
    /\ s \in pongTimeouts[ch]
    /\ CommitChannel(ch, onPongTimeout(Chan(ch), s))
    /\ UNCHANGED wsPhase
    /\ EngineIdle

\* a scheduled-reconnect timer of the channel fires (config.reconnectInterval)
ScheduledReconnect(ch, stray) ==
    /\ IF stray THEN strayScheduledReconnect[ch] ELSE scheduledReconnect[ch] = "pending"
    /\ CommitChannel(ch, onScheduledReconnect(Chan(ch), stray))
    /\ UNCHANGED wsPhase
    /\ EngineIdle

\* the timer i of reconnectPublic / reconnectPrivate fires
ReconnectTimerFires(ch, i) ==
    /\ i \in DOMAIN reconnectTimers[ch]
    /\ SocketsLeft(ch)
    /\ CommitChannel(ch, onReconnectTimer(Chan(ch), i))
    /\ UNCHANGED wsPhase
    /\ EngineIdle

NextConn ==
    \/ Connect
    \/ Disconnect
    \/ \E ch \in Channels : \E s \in DOMAIN sockets[ch] : SocketOpen(ch, s)
    \/ \E s \in loginSent : LoginResponse(s)
    \/ \E ch \in Channels : \E s \in DOMAIN sockets[ch] : SocketClose(ch, s)
    \/ \E ch \in Channels : PingInterval(ch)
    \/ \E ch \in Channels : \E s \in pongTimeouts[ch] : Pong(ch, s)
    \/ \E ch \in Channels : \E s \in pongTimeouts[ch] : PongTimeout(ch, s)
    \/ \E ch \in Channels, stray \in BOOLEAN : ScheduledReconnect(ch, stray)
    \/ \E ch \in Channels : \E i \in DOMAIN reconnectTimers[ch] : ReconnectTimerFires(ch, i)

\* the runs exercise one channel; the other connects once
InitConn ==
    /\ omVersion = 1
    /\ configMaxOrders = maxOrders
    /\ oidLimit = MaxOids
    /\ cacheFile = Missing
    /\ \E exercised \in Channels :
          socketLimit = [ch \in Channels |->
                            IF ch = exercised THEN MaxSockets ELSE MaxSocketsOtherChannel]
    /\ Constructed

SpecConn == InitConn /\ [][NextConn]_vars

\* every variable of the connections has a value of its kind
ConnTypeOK ==
    /\ wsPhase \in {"constructed", "connected", "disconnected"}
    /\ \A ch \in Channels :
          /\ Len(sockets[ch]) <= socketLimit[ch]
          /\ ws[ch] \in 0..Len(sockets[ch])
          /\ reconnectAttempts[ch] \in 0..maxReconnectAttempts
          /\ pongTimeouts[ch] \subseteq DOMAIN sockets[ch]
          /\ subscribed[ch] \subseteq DOMAIN sockets[ch]

\* the open sockets of the channel
OpenSockets(ch) == { s \in DOMAIN sockets[ch] : sockets[ch][s] = "open" }

\* the open sockets of the channel the venue sends the subscribed events to
SubscribedSockets(ch) == subscribed[ch] \cap OpenSockets(ch)

\* C36: at most one socket of a channel is open at a time, and at most one
\* open socket of a channel is subscribed (an event of the venue reaches the
\* 'message' handler once).
C36_OneOpenSocketPerChannel ==
    \A ch \in Channels :
        /\ Cardinality(OpenSockets(ch)) <= 1
        /\ Cardinality(SubscribedSockets(ch)) <= 1

\* the step leaves every socket of the channel but s as it was
OtherSocketsUntouched(ch, s) ==
    /\ Len(sockets'[ch]) = Len(sockets[ch])
    /\ \A t \in DOMAIN sockets[ch] : t # s => sockets'[ch][t] = sockets[ch][t]

\* C37: when the pongTimeout of a ping written to a socket fires, that socket
\* is closing or closed afterwards and no other socket of the channel is
\* touched; when the pong arrives on the socket, the pongTimeout of its ping is
\* cancelled.
C37_PongTimeoutClosesThePingedSocket ==
    [][ \A ch \in Channels : \A s \in pongTimeouts[ch] :
          /\ PongTimeout(ch, s)
               => /\ sockets'[ch][s] \in {"closing", "closed"}
                  /\ OtherSocketsUntouched(ch, s)
          /\ Pong(ch, s)
               => /\ s \notin pongTimeouts'[ch]
                  /\ sockets'[ch] = sockets[ch] ]_vars

\* disconnect() was called and connect() has not been called since
StaysDisconnected == wsPhase = "disconnected" /\ wsPhase' = "disconnected"

\* C40: between disconnect() and the next connect(), no step sets a
\* reconnection timer, none creates a socket, and neither channel becomes
\* connected or authenticated.
C40_DisconnectIsFinal ==
    [][ StaysDisconnected
          => /\ \A ch \in Channels :
                   /\ Len(reconnectTimers'[ch]) <= Len(reconnectTimers[ch])
                   /\ Len(sockets'[ch]) = Len(sockets[ch])
                   /\ ~ Connected(ch)'
             /\ ~ isAuthenticated' ]_vars

\* the sockets one channel may create in the runs of the backoff
MaxSocketsBackoff == 7

\* the reconnection timers of the channel are served by the event loop
ReconnectTimersFire(ch) == \E i \in DOMAIN reconnectTimers[ch] : ReconnectTimerFires(ch, i)

\* the connections drop and fail; nothing else happens
NextBackoff ==
    \/ Connect
    \/ \E ch \in Channels : \E s \in DOMAIN sockets[ch] : SocketOpen(ch, s)
    \/ \E ch \in Channels : \E s \in DOMAIN sockets[ch] : SocketClose(ch, s)
    \/ \E ch \in Channels : ReconnectTimersFire(ch)

InitBackoff ==
    /\ omVersion = 1
    /\ configMaxOrders = maxOrders
    /\ oidLimit = MaxOids
    /\ cacheFile = Missing
    /\ \E exercised \in Channels :
          socketLimit = [ch \in Channels |->
                            IF ch = exercised THEN MaxSocketsBackoff
                            ELSE MaxSocketsOtherChannel]
    /\ Constructed

SpecBackoff ==
    /\ InitBackoff
    /\ [][NextBackoff]_vars
    /\ \A ch \in Channels : WF_vars(ReconnectTimersFire(ch))

\* the timer the step has set for the channel
NewReconnectTimer(ch) == reconnectTimers'[ch][Len(reconnectTimers'[ch])]

\* C35: the timer set by the close that follows k earlier consecutive attempts
\* waits 1000 * 2^k ms, at most 30000 ms, and counts one more attempt; the
\* counter never exceeds maxReconnectAttempts, and at that count the timer
\* waits 60000 ms and resets the counter when it fires.
C35_BackoffStartsAtBaseDelayAndDoubles ==
    [][ \A ch \in Channels :
          /\ reconnectAttempts'[ch] <= maxReconnectAttempts
          /\ \A s \in DOMAIN sockets[ch] :
                SocketClose(ch, s)
                  => /\ Len(reconnectTimers'[ch]) = Len(reconnectTimers[ch]) + 1
                     /\ IF reconnectAttempts[ch] < maxReconnectAttempts
                        THEN /\ NewReconnectTimer(ch).delay
                                  = Min(1000 * Pow2(reconnectAttempts[ch]), 30000)
                             /\ ~ NewReconnectTimer(ch).reset
                             /\ reconnectAttempts'[ch] = reconnectAttempts[ch] + 1
                        ELSE /\ NewReconnectTimer(ch).delay = resetDelay
                             /\ NewReconnectTimer(ch).reset
                             /\ reconnectAttempts'[ch] = reconnectAttempts[ch]
          /\ \A i \in DOMAIN reconnectTimers[ch] :
                ReconnectTimerFires(ch, i) /\ reconnectTimers[ch][i].reset
                  => reconnectAttempts'[ch] = 0 ]_vars

\* the attempt after the cooldown: the attempts of the channel all failed, the
\* timer of the cooldown has reset the counter and created the next socket
RetriedAfterCooldown(ch) ==
    /\ Len(sockets[ch]) >= maxReconnectAttempts + 2
    /\ sockets[ch][Len(sockets[ch])] = "connecting"
    /\ reconnectAttempts[ch] = 0

\* C34: every close of a socket sets a reconnection timer, whatever the number
\* of attempts that failed before it, and a channel with a reconnection timer
\* set creates a new socket (while the run has sockets left for the channel).
C34_EveryCloseIsRetried ==
    /\ [][ \A ch \in Channels : \A s \in DOMAIN sockets[ch] :
             SocketClose(ch, s)
               => Len(reconnectTimers'[ch]) = Len(reconnectTimers[ch]) + 1 ]_vars
    /\ \A ch \in Channels : \A n \in 0..MaxSocketsBackoff :
          (reconnectTimers[ch] # << >> /\ Len(sockets[ch]) = n /\ SocketsLeft(ch))
             ~> (Len(sockets[ch]) > n)

C34_Witness == \E ch \in Channels : RetriedAfterCooldown(ch)

====
